---------------------------- MODULE Spec2Model ----------------------------
(***************************************************************************)
(* Model of the feishu-bot message path:                                   *)
(*   EventHandlers.handlePrivateMessage  (dedup claim, chat lock)          *)
(*   wrappedMessageHandler.HandleMessage (keyword routing, reply, escalate)*)
(*   Manager.ProcessMessage              (mode, extraction merge, save)    *)
(*   EscalationHandler.HandleEscalation  (invite, post, file relay, notify)*)
(*   Store                               (Redis session and dedup keys)    *)
(* One goroutine handles one inbound event; goroutines interleave at the   *)
(* Redis and chat-platform calls.                                          *)
(*                                                                         *)
(* Strings that the code inspects (message text, keywords, prefixes) are   *)
(* sequences of atoms, an atom being an indivisible chunk of characters.   *)
(* Timestamps (CreatedAt, UpdatedAt, Message.Timestamp) are not modelled.  *)
(***************************************************************************)
EXTENDS Naturals, Integers, Sequences, FiniteSets, TLC

(***************************************************************************)
(* Bounds                                                                  *)
(***************************************************************************)
\* number of inbound events (one goroutine each) in a behaviour
MaxEvents == 3
\* hours that pass in one step of the clock
TickHours == 12
\* goroutines inside handlePrivateMessage at the same time
MaxInFlight == 2
\* Redis and chat-platform calls that fail in one behaviour
MaxFaults == 1
\* schema keys whose values vary freely in the engine's inputs
MaxFields == 2
\* the files a prepared session holds at most
MaxFiles == 2

(***************************************************************************)
(* Program constants                                                       *)
(***************************************************************************)
\* store.go TryMarkMessageProcessed: SetNX(..., 24*time.Hour)
DedupTTLHours == 24

EscalatePrefix == "ESCALATE:"

ModeUnknown == ""
ModeIssue == "issue"
ModeSuggestion == "suggestion"

\* llm.AllFieldKeys
AllFieldKeys ==
  << "issue", "occur_time", "reproducible", "vpn",
     "app_version", "glasses_version", "glasses_sn",
     "ring_version", "ring_sn", "phone_model", "phone_os" >>

\* models.RequiredFields (keys, in schema order)
RequiredFields ==
  << "issue", "occur_time", "reproducible", "app_version",
     "glasses_version", "glasses_sn", "ring_version", "ring_sn",
     "phone_model", "phone_os" >>

\* models.OptionalFields
OptionalFields == << "vpn" >>

Range(s) == { s[i] : i \in 1..Len(s) }

FieldKeys == Range(AllFieldKeys)

\* llm.FieldDisplayNames / FieldDef.Name: the display name of a key
FieldDisplayNames == [ k \in FieldKeys |-> <<"name", k>> ]

(***************************************************************************)
(* Go maps of type map[string]string over the schema keys.  A key that is  *)
(* not in the map is marked Absent; reading it yields "" (Go zero value).  *)
(***************************************************************************)
Absent == "<absent>"

EmptyMap == [ k \in FieldKeys |-> Absent ]

\* m[key] in Go: the zero value "" for a missing key
Lookup(m, k) == IF m[k] = Absent THEN "" ELSE m[k]

\* val, ok := m[key]
HasKey(m, k) == m[k] # Absent

(***************************************************************************)
(* strings package, on sequences of atoms                                  *)
(***************************************************************************)
Space == " "

LowerAtom(a) ==
  CASE a = "Feedback" -> "feedback"
    [] a = "Suggestion" -> "suggestion"
    [] a = "Kefu" -> "kefu"
    [] OTHER -> a

ToLower(s) == [ i \in 1..Len(s) |-> LowerAtom(s[i]) ]

RECURSIVE TrimLeft(_)
TrimLeft(s) ==
  IF s # <<>> /\ Head(s) = Space THEN TrimLeft(Tail(s)) ELSE s

RECURSIVE TrimRight(_)
TrimRight(s) ==
  IF s # <<>> /\ s[Len(s)] = Space
    THEN TrimRight(SubSeq(s, 1, Len(s) - 1))
    ELSE s

\* variant: the text is taken as it is
TrimSpaceNone(s) == s

TrimSpace(s) == TrimRight(TrimLeft(s))

HasPrefix(s, p) == Len(p) <= Len(s) /\ SubSeq(s, 1, Len(p)) = p

\* variant: the text has to be the word
ContainsWhole(s, sub) == s = sub

\* strings.Contains
Contains(s, sub) ==
  \E i \in 0..Len(s) :
    i + Len(sub) <= Len(s) /\ SubSeq(s, i + 1, i + Len(sub)) = sub

TrimPrefix(s, p) ==
  IF HasPrefix(s, p) THEN SubSeq(s, Len(p) + 1, Len(s)) ELSE s

(***************************************************************************)
(* config: keyword lists (README.md configuration sample).  Chinese words   *)
(* are written in pinyin, the full-width colon as "fwcolon".               *)
(***************************************************************************)
EscalationKeywords == { <<"zhuan", "rengong">>, <<"rengong">>, <<"kefu">>, <<"tijiao">> }

ClearContextKeywords == { <<"qingkong">>, <<"qingchu_shangxiawen">>, <<"chongxin_kaishi">> }

IsEscalationKeyword(content) ==
  \E kw \in EscalationKeywords : Contains(ToLower(content), ToLower(kw))

IsClearContextKeyword(content) ==
  \E kw \in ClearContextKeywords : Contains(ToLower(content), ToLower(kw))

(***************************************************************************)
(* conversation/manager.go: isSuggestion                                   *)
(***************************************************************************)
SuggestionPrefixes ==
  { <<"fankui", "fwcolon">>, <<"fankui", ":">>, <<"jianyi", "fwcolon">>, <<"jianyi", ":">>,
    <<"feedback", "fwcolon">>, <<"feedback", ":">>,
    <<"suggestion", "fwcolon">>, <<"suggestion", ":">> }

\* variant: the prefix is compared without lowering the text
isSuggestionExact(text) ==
  \E p \in SuggestionPrefixes : HasPrefix(text, p)

isSuggestion(text) ==
  \E p \in SuggestionPrefixes : HasPrefix(ToLower(text), p)

(***************************************************************************)
(* pkg/models/types.go: Conversation                                       *)
(***************************************************************************)
\* the record GetOrCreateConversation builds for an unknown chat
NewConversation(chatID, senderID) ==
  [ ChatID         |-> chatID,
    SenderID       |-> senderID,
    Messages       |-> <<>>,
    Mode           |-> ModeUnknown,
    CollectedInfo  |-> EmptyMap,
    Files          |-> <<>>,
    SuggestionText |-> <<>> ]

\* variant: the new message takes the place of the log
AddMessageReplacing(c, role, content) ==
  [ c EXCEPT !.Messages = << [ Role |-> role, Content |-> content ] >> ]

\* Conversation.AddMessage
AddMessage(c, role, content) ==
  [ c EXCEPT !.Messages = Append(@, [ Role |-> role, Content |-> content ]) ]

SetCollectedInfo(c, key, value) ==
  [ c EXCEPT !.CollectedInfo = [ @ EXCEPT ![key] = value ] ]

\* variant: the new file is put in front of the others
AddFilePrepending(c, f) == [ c EXCEPT !.Files = <<f>> \o @ ]

AddFile(c, f) == [ c EXCEPT !.Files = Append(@, f) ]

HasFiles(c) == Len(c.Files) > 0

\* variant: only the first required field is looked at
IsInfoCompleteFirst(info) ==
  HasKey(info, RequiredFields[1]) /\ info[RequiredFields[1]] # ""

\* Conversation.IsInfoComplete, on the CollectedInfo map
IsInfoComplete(info) ==
  \A i \in 1..Len(RequiredFields) :
    HasKey(info, RequiredFields[i]) /\ info[RequiredFields[i]] # ""

RECURSIVE MissingFrom(_, _)
MissingFrom(info, i) ==
  IF i > Len(RequiredFields) THEN <<>>
  ELSE IF ~HasKey(info, RequiredFields[i]) \/ info[RequiredFields[i]] = ""
    THEN <<FieldDisplayNames[RequiredFields[i]]>> \o MissingFrom(info, i + 1)
    ELSE MissingFrom(info, i + 1)

\* Conversation.GetMissingFields: display names, in schema order
GetMissingFields(info) == MissingFrom(info, 1)

(***************************************************************************)
(* conversation/manager.go: snapshot and merge                             *)
(***************************************************************************)
\* variant: the snapshot is an empty map
getCollectedInfoSnapshotEmpty(c) == EmptyMap

\* getCollectedInfoSnapshot: a copy of the map
getCollectedInfoSnapshot(c) == c.CollectedInfo

\* variant: an empty extracted value is written like any other
MergeKeyErasing(acc, fieldMap, oldInfo, key) ==
  LET newValue == fieldMap[key]
      oldVal   == Lookup(oldInfo, key)
  IN  IF oldVal = newValue THEN acc
      ELSE [ conv  |-> SetCollectedInfo(acc.conv, key, newValue),
             parts |-> Append(acc.parts,
                         [ name    |-> FieldDisplayNames[key],
                           value   |-> newValue,
                           updated |-> (oldVal # "") ]) ]

\* one iteration of the loop in mergeExtractedInfo, for AllFieldKeys[i];
\* acc = [conv, parts]
MergeKey(acc, fieldMap, oldInfo, key) ==
  LET newValue == fieldMap[key]
      oldVal   == Lookup(oldInfo, key)
  IN  IF newValue = "" THEN acc
      ELSE IF oldVal = newValue THEN acc
      ELSE [ conv  |-> SetCollectedInfo(acc.conv, key, newValue),
             parts |-> Append(acc.parts,
                         [ name    |-> FieldDisplayNames[key],
                           value   |-> newValue,
                           updated |-> (oldVal # "") ]) ]

RECURSIVE MergeFrom(_, _, _, _)
MergeFrom(acc, fieldMap, oldInfo, i) ==
  IF i > Len(AllFieldKeys) THEN acc
  ELSE MergeFrom(MergeKey(acc, fieldMap, oldInfo, AllFieldKeys[i]),
                 fieldMap, oldInfo, i + 1)

\* variant: the extraction replaces the collected fields
mergeExtractedInfoReplacing(c, fieldMap, oldInfo) ==
  MergeFrom([ conv |-> [ c EXCEPT !.CollectedInfo = EmptyMap ],
              parts |-> <<>> ], fieldMap, EmptyMap, 1)

\* mergeExtractedInfo(conv, result, oldInfo): the conversation after the
\* merge and the change notes (newParts)
mergeExtractedInfo(c, fieldMap, oldInfo) ==
  MergeFrom([ conv |-> c, parts |-> <<>> ], fieldMap, oldInfo, 1)

(***************************************************************************)
(* Responses.  A response string is a record: its prefix (EscalatePrefix   *)
(* or none), the kind of text, the change notes, the missing field names   *)
(* and the rendered summary it contains.  kind = "" is the empty string.   *)
(***************************************************************************)
EmptyResponse ==
  [ prefix |-> "", kind |-> "", parts |-> <<>>, missing |-> <<>>,
    summary |-> <<>> ]

RECURSIVE SummaryFrom(_, _, _)
SummaryFrom(info, keys, i) ==
  IF i > Len(keys) THEN <<>>
  ELSE IF HasKey(info, keys[i]) /\ info[keys[i]] # ""
    THEN <<[ name |-> FieldDisplayNames[keys[i]], value |-> info[keys[i]] ]>>
           \o SummaryFrom(info, keys, i + 1)
    ELSE SummaryFrom(info, keys, i + 1)

\* Conversation.GetUserSummary
GetUserSummary(c) ==
  IF c.Mode = ModeSuggestion
    THEN <<[ name |-> <<"suggestion">>, value |-> c.SuggestionText ]>>
    ELSE SummaryFrom(c.CollectedInfo, RequiredFields, 1)
           \o SummaryFrom(c.CollectedInfo, OptionalFields, 1)

\* variant: the length of the message log is not looked at
buildSmartResponseEager(newInfoParts, c) ==
  LET missing == GetMissingFields(c.CollectedInfo)
  IN  IF Len(newInfoParts) = 0
        THEN [ EmptyResponse EXCEPT !.kind = "welcome", !.missing = missing ]
      ELSE [ EmptyResponse EXCEPT !.kind = "noted_still_need",
                                  !.parts = newInfoParts,
                                  !.missing = missing ]

\* buildSmartResponse(newInfoParts, conv)
buildSmartResponse(newInfoParts, c) ==
  LET missing == GetMissingFields(c.CollectedInfo)
  IN  IF Len(newInfoParts) = 0 /\ Len(c.Messages) <= 2
        THEN [ EmptyResponse EXCEPT !.kind = "welcome", !.missing = missing ]
      ELSE IF Len(missing) > 0
        THEN [ EmptyResponse EXCEPT
                 !.kind = IF Len(newInfoParts) = 0 THEN "please_provide"
                                                   ELSE "noted_still_need",
                 !.parts = newInfoParts,
                 !.missing = missing ]
      ELSE IF Len(newInfoParts) > 0
        THEN [ EmptyResponse EXCEPT !.kind = "noted", !.parts = newInfoParts ]
      ELSE EmptyResponse

\* the outcome of an engine call: the conversation object, the response,
\* the error flag, the records written to the store in order, and the change
\* notes of the merge (newInfoParts)
Outcome(c, resp, err, writes) ==
  [ conv |-> c, response |-> resp, err |-> err, writes |-> writes,
    notes |-> <<>> ]

\* buildEscalateResponse(ctx, conv)
buildEscalateResponse(c, saveOk, writes) ==
  LET userMsg == [ EmptyResponse EXCEPT
                     !.kind = IF c.Mode = ModeSuggestion
                                THEN "suggestion_submitting"
                                ELSE "all_collected",
                     !.summary = GetUserSummary(c) ]
      c1 == AddMessage(c, "assistant", <<userMsg.kind>>)
  IN  IF ~saveOk THEN Outcome(c1, EmptyResponse, TRUE, writes)
      ELSE Outcome(c1, [ userMsg EXCEPT !.prefix = EscalatePrefix ], FALSE,
                   Append(writes, c1))

\* handleSuggestion(ctx, conv, content)
handleSuggestion(c, content, saveOk) ==
  LET c1 == AddMessage([ c EXCEPT !.Mode = ModeSuggestion,
                                  !.SuggestionText = content ],
                       "user", content)
      userMsg == [ EmptyResponse EXCEPT !.kind = "suggestion_received" ]
      c2 == AddMessage(c1, "assistant", <<userMsg.kind>>)
  IN  IF ~saveOk THEN Outcome(c2, EmptyResponse, TRUE, <<>>)
      ELSE Outcome(c2, [ userMsg EXCEPT !.prefix = EscalatePrefix ], FALSE,
                   <<c2>>)

UploadedPrefix == <<"uploaded_file: ">>

\* variant: the mode is left as it was read
handleFileMessageKeepingMode(c, content, fileKey, messageID, saveOk1, saveOk2) ==
  LET fileName == IF HasPrefix(content, UploadedPrefix)
                    THEN TrimPrefix(content, UploadedPrefix)
                    ELSE <<"attachment">>
      c1 == IF fileKey # "" /\ messageID # ""
              THEN AddFile(c, [ MessageID |-> messageID, FileKey |-> fileKey,
                                FileName |-> fileName ])
              ELSE c
      c3 == AddMessage(c1, "user", content)
  IN  IF IsInfoComplete(c3.CollectedInfo)
        THEN LET c4 == AddMessage(c3, "assistant", <<"file_complete">>)
             IN  IF ~saveOk1 THEN Outcome(c4, EmptyResponse, TRUE, <<>>)
                 ELSE buildEscalateResponse(c4, saveOk2, <<c4>>)
        ELSE LET resp == [ EmptyResponse EXCEPT
                             !.kind = "file_received",
                             !.missing = GetMissingFields(c3.CollectedInfo) ]
                 c4 == AddMessage(c3, "assistant", <<resp.kind>>)
             IN  IF ~saveOk1 THEN Outcome(c4, EmptyResponse, TRUE, <<>>)
                 ELSE Outcome(c4, resp, FALSE, <<c4>>)

\* handleFileMessage(ctx, conv, content, fileKey, messageID)
handleFileMessage(c, content, fileKey, messageID, saveOk1, saveOk2) ==
  LET fileName == IF HasPrefix(content, UploadedPrefix)
                    THEN TrimPrefix(content, UploadedPrefix)
                    ELSE <<"attachment">>
      c1 == IF fileKey # "" /\ messageID # ""
              THEN AddFile(c, [ MessageID |-> messageID, FileKey |-> fileKey,
                                FileName |-> fileName ])
              ELSE c
      c2 == AddMessage(c1, "user", content)
      c3 == IF c2.Mode = ModeUnknown THEN [ c2 EXCEPT !.Mode = ModeIssue ]
                                     ELSE c2
  IN  IF IsInfoComplete(c3.CollectedInfo)
        THEN LET c4 == AddMessage(c3, "assistant", <<"file_complete">>)
             IN  IF ~saveOk1 THEN Outcome(c4, EmptyResponse, TRUE, <<>>)
                 ELSE buildEscalateResponse(c4, saveOk2, <<c4>>)
        ELSE LET resp == [ EmptyResponse EXCEPT
                             !.kind = "file_received",
                             !.missing = GetMissingFields(c3.CollectedInfo) ]
                 c4 == AddMessage(c3, "assistant", <<resp.kind>>)
             IN  IF ~saveOk1 THEN Outcome(c4, EmptyResponse, TRUE, <<>>)
                 ELSE Outcome(c4, resp, FALSE, <<c4>>)

\* the all-empty extraction result, &llm.ExtractionResult{}
EmptyResult == [ k \in FieldKeys |-> "" ]

\* variant: an extractor error is returned to the caller
collectIssueFailClosed(c, content, extraction, saveOk) ==
  LET c1 == AddMessage([ c EXCEPT !.Mode = ModeIssue ], "user", content)
      collectedInfo == getCollectedInfoSnapshot(c1)
      merged == mergeExtractedInfo(c1, extraction.fieldMap, collectedInfo)
      c2 == merged.conv
      out == IF extraction.err
               THEN Outcome(c1, EmptyResponse, TRUE, <<>>)
             ELSE IF IsInfoComplete(c2.CollectedInfo)
               THEN buildEscalateResponse(c2, saveOk, <<>>)
               ELSE LET response == buildSmartResponse(merged.parts, c2)
                        c3 == AddMessage(c2, "assistant", <<response.kind>>)
                    IN  IF ~saveOk THEN Outcome(c3, EmptyResponse, TRUE, <<>>)
                        ELSE Outcome(c3, response, FALSE, <<c3>>)
  IN  [ out EXCEPT !.notes = merged.parts ]

\* the issue-report branch of ProcessMessage (manager.go 66-104);
\* extraction = [err, fieldMap] is what llm.ExtractInfo returned
collectIssue(c, content, extraction, saveOk) ==
  LET c1 == AddMessage([ c EXCEPT !.Mode = ModeIssue ], "user", content)
      collectedInfo == getCollectedInfoSnapshot(c1)
      result == IF extraction.err THEN EmptyResult ELSE extraction.fieldMap
      merged == mergeExtractedInfo(c1, result, collectedInfo)
      c2 == merged.conv
      out == IF IsInfoComplete(c2.CollectedInfo)
               THEN buildEscalateResponse(c2, saveOk, <<>>)
               ELSE LET response == buildSmartResponse(merged.parts, c2)
                        c3 == AddMessage(c2, "assistant", <<response.kind>>)
                    IN  IF ~saveOk THEN Outcome(c3, EmptyResponse, TRUE, <<>>)
                        ELSE Outcome(c3, response, FALSE, <<c3>>)
  IN  [ out EXCEPT !.notes = merged.parts ]

\* variant: a suggestion prefix is looked for whatever the session's mode
ProcessMessageReclassifying(c, content, msgType, fileKey, messageID, extraction, saveOk1, saveOk2) ==
  LET trimmed == TrimSpace(content)
  IN  IF msgType # "text"
        THEN handleFileMessage(c, content, fileKey, messageID, saveOk1, saveOk2)
      ELSE IF trimmed = <<>>
        THEN Outcome(c, EmptyResponse, FALSE, <<>>)
      ELSE IF isSuggestion(trimmed)
        THEN handleSuggestion(c, trimmed, saveOk1)
      ELSE IF c.Mode = ModeSuggestion
        THEN handleSuggestion(c, trimmed, saveOk1)
      ELSE collectIssue(c, content, extraction, saveOk1)

\* Manager.ProcessMessage after GetOrCreateConversation has returned c
ProcessMessage(c, content, msgType, fileKey, messageID, extraction, saveOk1, saveOk2) ==
  LET trimmed == TrimSpace(content)
  IN  IF msgType # "text"
        THEN handleFileMessage(c, content, fileKey, messageID, saveOk1, saveOk2)
      ELSE IF trimmed = <<>>
        THEN Outcome(c, EmptyResponse, FALSE, <<>>)
      ELSE IF c.Mode = ModeUnknown /\ isSuggestion(trimmed)
        THEN handleSuggestion(c, trimmed, saveOk1)
      ELSE IF c.Mode = ModeSuggestion
        THEN handleSuggestion(c, trimmed, saveOk1)
      ELSE collectIssue(c, content, extraction, saveOk1)

\* whether ProcessMessage reaches the llm.ExtractInfo call
CallsExtractor(c, content, msgType) ==
  /\ msgType = "text"
  /\ TrimSpace(content) # <<>>
  /\ ~(c.Mode = ModeUnknown /\ isSuggestion(TrimSpace(content)))
  /\ c.Mode # ModeSuggestion

(***************************************************************************)
(* handler/escalate.go                                                     *)
(***************************************************************************)
\* the steps of forwardFileInThread, in call order
RelaySteps == << "download", "upload", "reply" >>

\* variant: a failed download or upload is tried a second time
forwardFileInThreadRetrying(i, fails) ==
  CASE fails = "download" -> << <<"download", i>>, <<"download", i>> >>
    [] fails = "upload"   ->
         << <<"download", i>>, <<"upload", i>>, <<"upload", i>> >>
    [] OTHER -> << <<"download", i>>, <<"upload", i>>, <<"reply", i>> >>

\* the chat-platform calls forwardFileInThread makes for file number i when
\* its first failing step is `fails' ("none" when every step succeeds)
forwardFileInThread(i, fails) ==
  CASE fails = "download" -> << <<"download", i>> >>
    [] fails = "upload"   -> << <<"download", i>>, <<"upload", i>> >>
    [] OTHER -> << <<"download", i>>, <<"upload", i>>, <<"reply", i>> >>

RECURSIVE RelayFrom(_, _, _)
\* variant: the loop ends at the first file whose relay fails
RelayFromStopping(files, relay, i) ==
  LET bad   == { j \in i..Len(files) : relay[j] # "none" }
      stop  == IF bad = {} THEN Len(files) + 1
               ELSE CHOOSE j \in bad : \A k \in bad : j <= k
      whole == [ k \in 1..(3 * (stop - i)) |->
                   << RelaySteps[((k - 1) % 3) + 1], i + ((k - 1) \div 3) >> ]
  IN  [ calls   |-> IF bad = {} THEN whole
                    ELSE whole \o forwardFileInThread(stop, relay[stop]),
        relayed |-> SubSeq(files, i, stop - 1) ]

\* the loop of HandleEscalation 57-65 from file number i on
RelayFrom(files, relay, i) ==
  IF i > Len(files) THEN [ calls |-> <<>>, relayed |-> <<>> ]
  ELSE LET rest == RelayFrom(files, relay, i + 1)
       IN  [ calls   |-> forwardFileInThread(i, relay[i]) \o rest.calls,
             relayed |-> IF relay[i] = "none"
                           THEN <<files[i]>> \o rest.relayed
                           ELSE rest.relayed ]

\* what the text of the user notification (escalate.go 67-68) says: that
\* the case was submitted and that the user was invited to the group
SubmittedNotice == [ submitted |-> TRUE, invited |-> TRUE ]

\* no notification
NoNotice == [ submitted |-> FALSE, invited |-> FALSE ]

\* variant: a failed post is logged and the pipeline goes on
HandleEscalationLenient(c, o) ==
  LET inviteCalls == IF c.SenderID # "" THEN << <<"invite", 0>> >> ELSE <<>>
      postCalls   == inviteCalls \o << <<"post", 0>> >>
      relay       == IF HasFiles(c) /\ o.post = "ok"
                       THEN RelayFrom(c.Files, o.relay, 1)
                       ELSE [ calls |-> <<>>, relayed |-> <<>> ]
  IN  [ err |-> FALSE,
        calls |-> postCalls \o relay.calls \o << <<"notify", 0>> >>,
        notice |-> SubmittedNotice,
        threads |-> IF o.post = "fail" THEN <<>>
                    ELSE << [ chat    |-> c.ChatID,
                              atUser  |-> c.SenderID,
                              mode    |-> c.Mode,
                              info    |-> c.CollectedInfo,
                              hasRoot |-> (o.post = "ok"),
                              files   |-> relay.relayed ] >> ]

\* EscalationHandler.HandleEscalation(ctx, conv) under the outcomes o of the
\* chat-platform calls: o.invite, o.notify in BOOLEAN, o.post in
\* {"fail", "ok", "noid"} ("noid": the post succeeded and returned no
\* message id), o.relay[i] the first failing step of file i or "none".
\* Result: the error flag, the calls made in order and the thread created
\* in the hand-off group (at most one).
HandleEscalation(c, o) ==
  LET inviteCalls == IF c.SenderID # "" THEN << <<"invite", 0>> >> ELSE <<>>
      postCalls   == inviteCalls \o << <<"post", 0>> >>
      relay       == IF HasFiles(c) /\ o.post = "ok"
                       THEN RelayFrom(c.Files, o.relay, 1)
                       ELSE [ calls |-> <<>>, relayed |-> <<>> ]
  IN  IF o.post = "fail"
        THEN [ err |-> TRUE, calls |-> postCalls, notice |-> NoNotice,
               threads |-> <<>> ]
        ELSE [ err |-> FALSE,
               calls |-> postCalls \o relay.calls \o << <<"notify", 0>> >>,
               notice |-> SubmittedNotice,
               threads |-> << [ chat    |-> c.ChatID,
                                atUser  |-> c.SenderID,
                                mode    |-> c.Mode,
                                info    |-> c.CollectedInfo,
                                hasRoot |-> (o.post = "ok"),
                                files   |-> relay.relayed ] >> ]

(***************************************************************************)
(* conversation/store.go: Redis                                            *)
(***************************************************************************)
\* variant: SET without NX, which succeeds whether or not the key exists
SetNXOverwriting(keys, messageID) ==
  [ ok |-> TRUE, keys |-> [ keys EXCEPT ![messageID] = DedupTTLHours ] ]

\* SetNX(key, "1", 24h) on the dedup keys: keys maps a message id to the
\* hours its key still has to live, 0 when the key does not exist
SetNX(keys, messageID) ==
  IF keys[messageID] = 0
    THEN [ ok |-> TRUE, keys |-> [ keys EXCEPT ![messageID] = DedupTTLHours ] ]
    ELSE [ ok |-> FALSE, keys |-> keys ]

\* variant: keys without a time to live
ExpireKeysNever(keys, hours) == keys

\* Redis expiry of the dedup keys when `hours' pass
ExpireKeys(keys, hours) ==
  [ m \in DOMAIN keys |-> IF keys[m] > hours THEN keys[m] - hours ELSE 0 ]

\* Store.TryMarkMessageProcessed; transportOk = FALSE is a Redis error
TryMarkMessageProcessed(keys, messageID, transportOk) ==
  IF ~transportOk
    THEN [ isNew |-> FALSE, err |-> TRUE, keys |-> keys ]
    ELSE LET r == SetNX(keys, messageID)
         IN  [ isNew |-> r.ok, err |-> FALSE, keys |-> r.keys ]

\* Store.GetOrCreateConversation on the stored record set rec (empty when
\* the key does not exist)
GetOrCreateConversation(rec, chatID, senderID) ==
  IF rec # {}
    THEN LET c == CHOOSE x \in rec : TRUE
         IN  IF c.SenderID # senderID THEN [ c EXCEPT !.SenderID = senderID ]
                                      ELSE c
    ELSE NewConversation(chatID, senderID)

(***************************************************************************)
(* feishu/event_handler.go                                                 *)
(***************************************************************************)
\* variant: one mutex for every chat
getChatLockGlobal(chatID) == "c1"

\* getChatLock: the key of the mutex that guards chatID
getChatLock(chatID) == chatID

\* variant: a claim that failed is treated as a new message (fail open)
AdmissionFailOpen(messageID, chatType, claimed, isNew, err) ==
  IF claimed /\ ~err /\ ~isNew THEN "drop_duplicate"
  ELSE IF chatType # "p2p" THEN "ignore"
  ELSE "handle"

\* handlePrivateMessage 124-142: what becomes of an event after the dedup
\* claim r (r.claimed = FALSE when no claim is made) and the chat type check
Admission(messageID, chatType, claimed, isNew, err) ==
  IF claimed /\ err THEN "drop_error"
  ELSE IF claimed /\ ~isNew THEN "drop_duplicate"
  ELSE IF chatType # "p2p" THEN "ignore"
  ELSE "handle"

\* variant: no dedup claim is made
ClaimsDedupNever(messageID) == FALSE

\* handlePrivateMessage 124: whether the dedup claim is made
ClaimsDedup(messageID) == messageID # ""

(***************************************************************************)
(* The environment: chats, message ids, inbound events, extractor answers  *)
(***************************************************************************)
Workers == 1..MaxEvents

Chats == { "c1", "c2" }

MsgIds ==
  { "", "m1", "m2", "m3", "m4", "m5", "m6", "m7", "m8", "m9", "m10", "m11",
    "m12", "m13" }

Only(keys, v) == [ k \in FieldKeys |-> IF k \in keys THEN v ELSE "" ]

\* an inbound event; `says' is the field map the extractor reads out of its
\* content
Event(mid, chat, chatType, msgType, content, fileKey, says) ==
  [ messageID |-> mid, chatID |-> chat, senderID |-> <<"user", chat>>,
    chatType |-> chatType, msgType |-> msgType, content |-> content,
    fileKey |-> fileKey, says |-> says ]

NoEvent == Event("", "c1", "", "", <<>>, "", EmptyResult)

\* the events the platform may deliver; a message id identifies its event,
\* so a redelivery carries the same chat and content
EvText1 ==
  Event("m1", "c1", "p2p", "text", <<"hello">>, "", Only({"issue"}, "v1"))
EvText2 ==
  Event("m2", "c1", "p2p", "text", <<"more", " ">>, "",
        Only(FieldKeys \ {"issue"}, "v1"))
EvSuggest ==
  Event("m3", "c2", "p2p", "text", <<" ", "Feedback", ":", "x">>, "",
        EmptyResult)
EvFile ==
  Event("m4", "c1", "p2p", "file", <<"uploaded_file: ", "a.zip">>, "fk1",
        EmptyResult)
EvGroup ==
  Event("m5", "c2", "group", "text", <<"hello">>, "", EmptyResult)
EvEscalate ==
  Event("m6", "c1", "p2p", "text", <<"zhuan", "rengong">>, "", EmptyResult)
EvClear ==
  Event("m7", "c1", "p2p", "text", <<"qingkong">>, "", EmptyResult)
EvBlank ==
  Event("m8", "c2", "p2p", "text", <<" ">>, "", EmptyResult)
EvNoId ==
  Event("", "c2", "p2p", "text", <<"hello">>, "", Only({"issue"}, "v1"))
EvFull ==
  Event("m9", "c1", "p2p", "text", <<"everything">>, "",
        Only(FieldKeys, "v1"))

EvSuggestLate ==
  Event("m10", "c1", "p2p", "text", <<"jianyi", ":", "x">>, "",
        Only({"issue"}, "v2"))
EvFileOther ==
  Event("m11", "c2", "p2p", "file", <<"uploaded_file: ", "b.zip">>, "fk2",
        EmptyResult)

EvImage ==
  Event("m12", "c1", "p2p", "image", <<"sent_image">>, "", EmptyResult)

EvShout ==
  Event("m13", "c1", "p2p", "text", <<"pls", "Kefu", "!">>, "",
        Only({"issue"}, "v2"))

\* the sets of events a behaviour draws its deliveries from
Scenarios ==
  { { EvText1, EvText2 },
    { EvText1, EvSuggest },
    { EvText1, EvFile },
    { EvText1, EvEscalate },
    { EvText1, EvClear },
    { EvGroup, EvNoId },
    { EvBlank, EvNoId },
    { EvFull, EvText1 },
    { EvText1, EvShout },
    { EvSuggest, EvNoId } }

\* the scenarios followed over several retention windows
TimedScenarios ==
  { { EvText1, EvEscalate },
    { EvText1, EvClear } }

\* what llm.ExtractInfo may return for event e: an error, or what e says
Extractions(e) ==
  { [ err |-> TRUE, fieldMap |-> EmptyResult ],
    [ err |-> FALSE, fieldMap |-> e.says ] }

RelayOutcomes == { "none", "download", "upload", "reply" }

\* the outcomes of the chat-platform calls of one hand-off of c
EscalationOutcomes(c) ==
  [ invite : BOOLEAN, post : { "fail", "ok", "noid" },
    relay : [ 1..Len(c.Files) -> RelayOutcomes ], notify : BOOLEAN ]

\* the number of calls that fail under outcome o
FailedCalls(o) ==
  (IF o.invite THEN 0 ELSE 1) + (IF o.post = "fail" THEN 1 ELSE 0)
    + (IF o.notify THEN 0 ELSE 1)
    + Cardinality({ i \in DOMAIN o.relay : o.relay[i] # "none" })

\* the number of FALSE among the outcomes oks
Failed(oks) == Cardinality({ i \in DOMAIN oks : ~oks[i] })

(***************************************************************************)
(* State                                                                   *)
(***************************************************************************)
VARIABLES
  inbox,       \* the events the platform delivers in this behaviour
  processed,   \* Redis dedup keys: message id -> hours to live (0: no key)
  store,       \* Redis session keys: chat -> set of at most one record
  chatLocks,   \* lock key -> worker holding the mutex (0: unlocked)
  pc,          \* worker -> position in handlePrivateMessage
  ev,          \* worker -> the event it handles
  claim,       \* worker -> result of its dedup claim
  conv,        \* worker -> the conversation object it read (at most one)
  last,        \* the most recent ProcessMessage call: input and outcome
  fx,          \* worker -> its effects so far, in order
  threads,     \* the threads created in the hand-off group, in order
  run,         \* the calls of the most recent HandleEscalation
  handoff,     \* the most recent HandleEscalation: session and outcomes
  filed,       \* history: chat -> summaries posted for its stored session
  sinceTrue,   \* history: message id -> hours since its last true claim
  wins,        \* history: true claims of a message id in the open window
  tries,       \* history: claims without error in the open window
  handled,     \* history: HandleMessage calls of a message id in the window
  claimAge,    \* history: worker -> sinceTrue of its id when it claimed
  raced,       \* history: worker -> another claim of its id was pending
  contended,   \* history: worker -> its lock was held when it reached Lock
  lockOrder,   \* history: chat -> workers in lock acquisition order
  handleOrder, \* history: chat -> workers in HandleMessage order
  expected,    \* history: chat -> last saved extraction value of each key
  faults       \* the calls that have failed so far

vars ==
  << inbox, processed, store, chatLocks, pc, ev, claim, conv, last, fx,
     threads, run, sinceTrue, wins, tries, handled, claimAge, contended,
     lockOrder, handleOrder, expected, faults, raced, handoff, filed >>

redisVars == << processed, store >>
claimHist == << inbox, sinceTrue, wins, tries, claimAge, raced >>
engineVars == << conv, last >>
groupVars == << threads, run, handoff >>
orderHist == << lockOrder, handleOrder >>

\* `last' before any ProcessMessage call
NoCall ==
  [ worker |-> 0, before |-> NewConversation("", <<>>),
    event |-> NoEvent, extracted |-> FALSE, failed |-> FALSE,
    saveOk |-> TRUE,
    result |-> EmptyResult,
    after |-> NewConversation("", <<>>), notes |-> <<>>,
    response |-> EmptyResponse, err |-> FALSE, saved |-> FALSE,
    record |-> {} ]

\* `handoff' before any HandleEscalation call
NoHandoff ==
  [ worker |-> 0, conv |-> NewConversation("", <<>>),
    outcome |-> [ invite |-> TRUE, post |-> "ok", relay |-> <<>>,
                  notify |-> TRUE ],
    err |-> FALSE, cleared |-> FALSE, notice |-> NoNotice ]

\* the state after construction, with the events of one of `scenarios' and
\* the sessions of one of `stores' in Redis
Start(scenarios, stores) ==
  /\ inbox \in scenarios
  /\ processed = [ m \in MsgIds |-> 0 ]
  /\ store \in stores
  /\ chatLocks = [ c \in Chats |-> 0 ]
  /\ pc = [ w \in Workers |-> "idle" ]
  /\ ev = [ w \in Workers |-> NoEvent ]
  /\ claim = [ w \in Workers |-> "none" ]
  /\ conv = [ w \in Workers |-> {} ]
  /\ last = NoCall
  /\ fx = [ w \in Workers |-> <<>> ]
  /\ threads = <<>>
  /\ run = <<>>
  /\ handoff = NoHandoff
  /\ filed = [ c \in Chats |-> 0 ]
  /\ sinceTrue = [ m \in MsgIds |-> DedupTTLHours ]
  /\ wins = [ m \in MsgIds |-> 0 ]
  /\ tries = [ m \in MsgIds |-> 0 ]
  /\ handled = [ m \in MsgIds |-> 0 ]
  /\ claimAge = [ w \in Workers |-> 0 ]
  /\ raced = [ w \in Workers |-> FALSE ]
  /\ contended = [ w \in Workers |-> FALSE ]
  /\ lockOrder = [ c \in Chats |-> <<>> ]
  /\ handleOrder = [ c \in Chats |-> <<>> ]
  /\ expected = [ c \in Chats |-> EmptyResult ]
  /\ faults = 0

NoSessions == [ c \in Chats |-> {} ]

Init == Start(Scenarios, { NoSessions })

InitTimed == Start(TimedScenarios, { NoSessions })

\* n of the calls made in this step fail, where at most `budget' calls
\* fail in a behaviour
FailsWithin(n, budget) ==
  /\ faults + n <= budget
  /\ faults' = faults + n

\* n of the calls made in this step fail
Fails(n) == FailsWithin(n, MaxFaults)

\* variant: nothing is sent
SentNothing(kind) == <<>>

\* a SendTextMessage / ReplyMessage call to the user
Sent(kind) == << <<"send", kind>> >>

(***************************************************************************)
(* Actions                                                                 *)
(***************************************************************************)
Min(a, b) == IF a < b THEN a ELSE b

Last(s) == s[Len(s)]

\* w is inside HandleMessage, between mu.Lock() and the deferred mu.Unlock()
InHandler(w) == pc[w] \in { "handle", "process", "escalate" }

\* variant: Lock() never waits
MutexFreeAlways(holder) == TRUE

\* sync.Mutex: Lock() proceeds when no goroutine holds the mutex
MutexFree(holder) == holder = 0

\* w goes on to position p, still inside handlePrivateMessage
Goes(w, p, effects) ==
  /\ pc' = [ pc EXCEPT ![w] = p ]
  /\ fx' = [ fx EXCEPT ![w] = @ \o effects ]
  /\ UNCHANGED chatLocks

\* variant: the goroutine returns with the mutex still locked
ReturnsHolding(w, effects) ==
  /\ pc' = [ pc EXCEPT ![w] = "done" ]
  /\ fx' = [ fx EXCEPT ![w] = @ \o effects ]
  /\ UNCHANGED chatLocks

\* handlePrivateMessage returns from inside the locked region: the deferred
\* mu.Unlock() (line 154) runs
Returns(w, effects) ==
  /\ pc' = [ pc EXCEPT ![w] = "done" ]
  /\ fx' = [ fx EXCEPT ![w] = @ \o effects \o << <<"unlock", "">> >> ]
  /\ chatLocks' = [ chatLocks EXCEPT ![getChatLock(ev[w].chatID)] = 0 ]

\* the platform delivers event e; the dispatcher starts a goroutine for it
Deliver(e) ==
  /\ e \in inbox
  /\ Cardinality({ w \in Workers : pc[w] \notin { "idle", "done" } })
       < MaxInFlight
  /\ \E w \in Workers :
       /\ pc[w] = "idle"
       /\ \A v \in Workers : v < w => pc[v] # "idle"
       /\ pc' = [ pc EXCEPT ![w] = "dedup" ]
       /\ ev' = [ ev EXCEPT ![w] = e ]
  /\ UNCHANGED << redisVars, chatLocks, claim, engineVars, fx, groupVars,
                  claimHist, handled, contended, orderHist, expected, filed,
                  faults >>

\* handlePrivateMessage 97-148: the dedup claim, the chat type check and the
\* extraction of content and file key
Claim(w) ==
  /\ pc[w] = "dedup"
  /\ \E transportOk \in IF ClaimsDedup(ev[w].messageID) THEN BOOLEAN
                                                         ELSE { TRUE } :
       LET m       == ev[w].messageID
           claimed == ClaimsDedup(m)
           r       == IF claimed
                        THEN TryMarkMessageProcessed(processed, m, transportOk)
                        ELSE [ isNew |-> TRUE, err |-> FALSE,
                               keys |-> processed ]
           verdict == Admission(m, ev[w].chatType, claimed, r.isNew, r.err)
           counted == claimed /\ ~r.err
       IN  /\ Fails(Failed(<<transportOk>>))
           /\ processed' = r.keys
           /\ claim' = [ claim EXCEPT ![w] =
                           IF ~claimed THEN "skipped"
                           ELSE IF r.err THEN "err"
                           ELSE IF r.isNew THEN "new" ELSE "dup" ]
           /\ pc' = [ pc EXCEPT ![w] =
                        IF verdict = "handle" THEN "lock" ELSE "done" ]
           /\ contended' = [ contended EXCEPT ![w] =
                               verdict = "handle"
                               /\ chatLocks[getChatLock(ev[w].chatID)] # 0 ]
           /\ claimAge' = [ claimAge EXCEPT ![w] =
                              IF counted THEN sinceTrue[m] ELSE @ ]
           /\ raced' = [ raced EXCEPT ![w] =
                           counted /\ \E v \in Workers \ { w } :
                                        /\ pc[v] = "dedup"
                                        /\ ev[v].messageID = m ]
           /\ tries' = [ tries EXCEPT ![m] = IF counted THEN @ + 1 ELSE @ ]
           /\ wins' = [ wins EXCEPT ![m] =
                          IF counted /\ r.isNew THEN @ + 1 ELSE @ ]
           /\ sinceTrue' = [ sinceTrue EXCEPT ![m] =
                               IF counted /\ r.isNew THEN 0 ELSE @ ]
  /\ UNCHANGED << inbox, store, chatLocks, ev, engineVars, fx, groupVars,
                  handled, orderHist, expected, filed >>

\* handlePrivateMessage 152-153: mu := getChatLock(chatID); mu.Lock()
Lock(w) ==
  /\ pc[w] = "lock"
  /\ MutexFree(chatLocks[getChatLock(ev[w].chatID)])
  /\ chatLocks' = [ chatLocks EXCEPT ![getChatLock(ev[w].chatID)] = w ]
  /\ pc' = [ pc EXCEPT ![w] = "handle" ]
  /\ fx' = [ fx EXCEPT ![w] = @ \o << <<"lock", "">> >> ]
  /\ lockOrder' = [ lockOrder EXCEPT ![ev[w].chatID] = Append(@, w) ]
  /\ UNCHANGED << redisVars, ev, claim, engineVars, groupVars, claimHist,
                  handled, contended, handleOrder, expected, filed, faults >>

\* history of a HandleMessage call by w
Handling(w) ==
  /\ handled' = [ handled EXCEPT ![ev[w].messageID] = @ + 1 ]
  /\ handleOrder' = [ handleOrder EXCEPT ![ev[w].chatID] = Append(@, w) ]

\* the session of chat c is deleted from Redis (DEL or expiry)
Deleted(c) ==
  /\ store' = [ store EXCEPT ![c] = {} ]
  /\ expected' = [ expected EXCEPT ![c] = EmptyResult ]
  /\ filed' = [ filed EXCEPT ![c] = 0 ]

\* HandleMessage 136-138 and handleClearContext
ClearContext(w) ==
  /\ pc[w] = "handle"
  /\ ev[w].msgType = "text" /\ IsClearContextKeyword(ev[w].content)
  /\ Handling(w)
  /\ \E clearOk \in BOOLEAN :
       /\ Fails(Failed(<<clearOk>>))
       /\ IF clearOk
            THEN Deleted(ev[w].chatID) /\ Returns(w, Sent("cleared"))
            ELSE /\ Returns(w, Sent("clear_failed"))
                 /\ UNCHANGED << store, expected, filed >>
  /\ UNCHANGED << processed, ev, claim, engineVars, groupVars, claimHist,
                  contended, lockOrder >>

\* HandleMessage 141-143 and HandleEscalation 173-176, up to doEscalation
ForceEscalate(w) ==
  /\ pc[w] = "handle"
  /\ ev[w].msgType = "text"
  /\ ~IsClearContextKeyword(ev[w].content)
  /\ IsEscalationKeyword(ev[w].content)
  /\ Handling(w)
  /\ Goes(w, "escalate", <<>>)
  /\ UNCHANGED << redisVars, ev, claim, engineVars, groupVars, claimHist,
                  contended, lockOrder, expected, filed, faults >>

\* HandleMessage 146 and ProcessMessage 35-42: the engine reads the session
BeginProcess(w) ==
  /\ pc[w] = "handle"
  /\ ~(ev[w].msgType = "text" /\ IsClearContextKeyword(ev[w].content))
  /\ ~(ev[w].msgType = "text" /\ IsEscalationKeyword(ev[w].content))
  /\ Handling(w)
  /\ \E readOk \in BOOLEAN :
       /\ Fails(Failed(<<readOk>>))
       /\ IF readOk
            THEN /\ conv' = [ conv EXCEPT ![w] =
                       { GetOrCreateConversation(store[ev[w].chatID],
                                                 ev[w].chatID,
                                                 ev[w].senderID) } ]
                 /\ Goes(w, "process", <<>>)
            ELSE /\ Returns(w, Sent("sorry"))
                 /\ UNCHANGED conv
  /\ UNCHANGED << redisVars, ev, claim, last, groupVars, claimHist,
                  contended, lockOrder, expected, filed >>

\* the value each key should hold after a saved merge of fieldMap
Recorded(old, fieldMap) ==
  [ k \in FieldKeys |-> IF fieldMap[k] # "" THEN fieldMap[k] ELSE old[k] ]

\* the outcomes the calls of ProcessMessage on c and event e can have: the
\* extraction and the two saves, each call that is not made counted as fine
NoExtraction == [ err |-> FALSE, fieldMap |-> EmptyResult ]

EngineOutcomes(c, e, extractions) ==
  { x \in [ extraction : extractions \cup { NoExtraction },
            saveOk1 : BOOLEAN, saveOk2 : BOOLEAN ] :
      /\ IF CallsExtractor(c, e.content, e.msgType)
           THEN x.extraction \in extractions
           ELSE x.extraction = NoExtraction
      /\ (e.msgType = "text" /\ TrimSpace(e.content) = <<>>) => x.saveOk1
      /\ ~(e.msgType # "text" /\ IsInfoComplete(c.CollectedInfo) /\ x.saveOk1)
           => x.saveOk2 }

\* the record of a ProcessMessage call by w on conversation c under x
EngineCall(w, c, e, x) ==
  LET out == ProcessMessage(c, e.content, e.msgType, e.fileKey, e.messageID,
                            x.extraction, x.saveOk1, x.saveOk2)
  IN  [ worker |-> w, before |-> c, event |-> e,
        extracted |-> CallsExtractor(c, e.content, e.msgType),
        failed |-> x.extraction.err,
        saveOk |-> x.saveOk1 /\ x.saveOk2,
        result |-> x.extraction.fieldMap, after |-> out.conv,
        notes |-> out.notes, response |-> out.response, err |-> out.err,
        saved |-> Len(out.writes) > 0,
        record |-> IF Len(out.writes) > 0 THEN { Last(out.writes) } ELSE {} ]

\* the call's effect on the store and on what the session should hold
Saves(chat, call) ==
  /\ store' = [ store EXCEPT ![chat] = IF call.saved THEN call.record ELSE @ ]
  /\ expected' = [ expected EXCEPT ![chat] =
                     IF call.saved THEN Recorded(@, call.result) ELSE @ ]
  /\ UNCHANGED filed

\* ProcessMessage 44-104 on the conversation read, then HandleMessage 147-169
Process(w) ==
  /\ pc[w] = "process"
  /\ LET c == CHOOSE x \in conv[w] : TRUE
         e == ev[w]
     IN  \E x \in EngineOutcomes(c, e, Extractions(e)) :
           LET call == EngineCall(w, c, e, x)
           IN  /\ Fails(Failed(<<~x.extraction.err, x.saveOk1, x.saveOk2>>))
               /\ Saves(e.chatID, call)
               /\ last' = call
               /\ IF call.err
                    THEN Returns(w, Sent("sorry"))
                  ELSE IF call.response.prefix = EscalatePrefix
                    THEN Goes(w, "escalate", Sent(call.response.kind))
                  ELSE IF call.response.kind # ""
                    THEN Returns(w, Sent(call.response.kind))
                  ELSE Returns(w, <<>>)
  /\ conv' = [ conv EXCEPT ![w] = {} ]
  /\ UNCHANGED << processed, ev, claim, groupVars, claimHist, handled,
                  contended, orderHist >>

\* the outcomes in which every call that is not made counts as fine
PipelineOutcomes(c) ==
  { o \in EscalationOutcomes(c) :
      /\ o.post = "fail" => o.notify
      /\ o.post # "ok" => \A i \in DOMAIN o.relay : o.relay[i] = "none" }

\* variant: the session is deleted when the hand-off failed, too
doEscalationForgetting(w, budget) ==
  /\ pc[w] = "escalate"
  /\ LET chat == ev[w].chatID
     IN  \E getOk \in BOOLEAN :
           IF ~getOk
             THEN /\ FailsWithin(1, budget)
                  /\ Returns(w, Sent("get_failed"))
                  /\ UNCHANGED << store, expected, filed, groupVars >>
           ELSE IF store[chat] = {}
             THEN /\ FailsWithin(0, budget)
                  /\ Returns(w, Sent("describe_first"))
                  /\ UNCHANGED << store, expected, filed, groupVars >>
           ELSE LET c == CHOOSE x \in store[chat] : TRUE
                IN  \E o \in PipelineOutcomes(c), clearOk \in BOOLEAN :
                      LET r == HandleEscalation(c, o)
                      IN  /\ r.err => clearOk
                          /\ FailsWithin(FailedCalls(o) + Failed(<<clearOk>>),
                                         budget)
                          /\ run' = r.calls
                          /\ threads' = threads \o r.threads
                          /\ handoff' = [ worker |-> w, conv |-> c,
                                          outcome |-> o, err |-> r.err,
                                          cleared |-> ~r.err /\ clearOk,
                                          notice |-> r.notice ]
                          /\ IF r.err
                               THEN /\ Returns(w, Sent("submit_failed"))
                                    /\ Deleted(chat)
                             ELSE IF clearOk
                               THEN Deleted(chat) /\ Returns(w, <<>>)
                             ELSE /\ Returns(w, <<>>)
                                  /\ filed' = [ filed EXCEPT ![chat] = @ + 1 ]
                                  /\ UNCHANGED << store, expected >>
  /\ UNCHANGED << processed, ev, claim, engineVars, claimHist, handled,
                  contended, orderHist >>

\* doEscalation 179-204, where at most `budget' calls fail in a behaviour
doEscalation(w, budget) ==
  /\ pc[w] = "escalate"
  /\ LET chat == ev[w].chatID
     IN  \E getOk \in BOOLEAN :
           IF ~getOk
             THEN /\ FailsWithin(1, budget)
                  /\ Returns(w, Sent("get_failed"))
                  /\ UNCHANGED << store, expected, filed, groupVars >>
           ELSE IF store[chat] = {}
             THEN /\ FailsWithin(0, budget)
                  /\ Returns(w, Sent("describe_first"))
                  /\ UNCHANGED << store, expected, filed, groupVars >>
           ELSE LET c == CHOOSE x \in store[chat] : TRUE
                IN  \E o \in PipelineOutcomes(c), clearOk \in BOOLEAN :
                      LET r == HandleEscalation(c, o)
                      IN  /\ r.err => clearOk
                          /\ FailsWithin(FailedCalls(o) + Failed(<<clearOk>>),
                                         budget)
                          /\ run' = r.calls
                          /\ threads' = threads \o r.threads
                          /\ handoff' = [ worker |-> w, conv |-> c,
                                          outcome |-> o, err |-> r.err,
                                          cleared |-> ~r.err /\ clearOk,
                                          notice |-> r.notice ]
                          /\ IF r.err
                               THEN /\ Returns(w, Sent("submit_failed"))
                                    /\ UNCHANGED << store, expected, filed >>
                             ELSE IF clearOk
                               THEN Deleted(chat) /\ Returns(w, <<>>)
                             ELSE /\ Returns(w, <<>>)
                                  /\ filed' = [ filed EXCEPT ![chat] = @ + 1 ]
                                  /\ UNCHANGED << store, expected >>
  /\ UNCHANGED << processed, ev, claim, engineVars, claimHist, handled,
                  contended, orderHist >>

\* doEscalation as a step of goroutine w
Escalate(w) == doEscalation(w, MaxFaults)

\* no goroutine is inside handlePrivateMessage
Quiet == \A w \in Workers : pc[w] \in { "idle", "done" }

\* the history of message id m after `hours' more hours
Aged(hist, age, m) == IF age[m] = DedupTTLHours THEN 0 ELSE hist[m]

\* TickHours pass while the bot is quiet: dedup keys age and expire, and
\* every session, which lives for minutes, expires
Tick ==
  /\ Quiet
  /\ processed' = ExpireKeys(processed, TickHours)
  /\ store' = [ c \in Chats |-> {} ]
  /\ expected' = [ c \in Chats |-> EmptyResult ]
  /\ filed' = [ c \in Chats |-> 0 ]
  /\ sinceTrue' =
       [ m \in MsgIds |-> Min(DedupTTLHours, sinceTrue[m] + TickHours) ]
  /\ wins' = [ m \in MsgIds |-> Aged(wins, sinceTrue', m) ]
  /\ tries' = [ m \in MsgIds |-> Aged(tries, sinceTrue', m) ]
  /\ handled' = [ m \in MsgIds |-> Aged(handled, sinceTrue', m) ]
  /\ UNCHANGED << inbox, chatLocks, pc, ev, claim, engineVars, fx, groupVars,
                  claimAge, raced, contended, orderHist, faults >>

\* the session of chat c reaches its expiration while the bot is quiet
ExpireSession(c) ==
  /\ Quiet
  /\ store[c] # {}
  /\ Deleted(c)
  /\ UNCHANGED << inbox, processed, chatLocks, pc, ev, claim, engineVars, fx,
                  groupVars, sinceTrue, wins, tries, handled, claimAge,
                  raced, contended, orderHist, faults >>

Next ==
  \/ \E e \in UNION Scenarios : Deliver(e)
  \/ \E w \in Workers : Claim(w)
  \/ \E w \in Workers : Lock(w)
  \/ \E w \in Workers : ClearContext(w)
  \/ \E w \in Workers : ForceEscalate(w)
  \/ \E w \in Workers : BeginProcess(w)
  \/ \E w \in Workers : Process(w)
  \/ \E w \in Workers : Escalate(w)
  \/ \E c \in Chats : ExpireSession(c)

\* a step of the goroutine w after it was started, other than mu.Lock() and
\* the engine call
Runs(w) ==
  \/ Claim(w)
  \/ ClearContext(w)
  \/ ForceEscalate(w)
  \/ BeginProcess(w)
  \/ Escalate(w)

\* the guard of Process(w): w is at the engine call and the calls made for
\* its event have an outcome within the fault budget
ProcessEnabled(w) ==
  /\ pc[w] = "process"
  /\ conv[w] # {}
  /\ \E x \in EngineOutcomes(CHOOSE c \in conv[w] : TRUE, ev[w],
                             Extractions(ev[w])) :
       faults + Failed(<<~x.extraction.err, x.saveOk1, x.saveOk2>>)
         <= MaxFaults

\* the bot where every started goroutine is scheduled, every call it makes
\* returns, and a goroutine waiting in mu.Lock() gets the mutex if it is
\* unlocked again and again (sync.Mutex hands a starving waiter the mutex);
\* the weak fairness of Process(w), the engine call, is written out with
\* the guard of Process(w) for its enabledness
SpecLive ==
  /\ InitTimed
  /\ [][Next]_vars
  /\ \A w \in Workers :
       /\ WF_vars(Runs(w))
       /\ []<>(~ProcessEnabled(w)) \/ []<><<Process(w)>>_vars
       /\ SF_vars(Lock(w))

NextTimed == Next \/ Tick

\* the bot within one retention window of the dedup keys
Spec == Init /\ [][Next]_vars

\* the bot over several retention windows
SpecTimed == InitTimed /\ [][NextTimed]_vars

(***************************************************************************)
(* The engine alone: ProcessMessage called synchronously on a stored       *)
(* session, for every extraction result over a bounded set of field maps   *)
(***************************************************************************)
VaryingKeys == { AllFieldKeys[i] : i \in 1..MaxFields }

\* extraction results: the first MaxFields keys take any of three values,
\* the other keys are all empty or all filled
InfoMaps ==
  { [ k \in FieldKeys |-> IF k \in VaryingKeys THEN f[k] ELSE rest ] :
      f \in [ VaryingKeys -> { "", "v1", "v2" } ], rest \in { "", "v1" } }

\* strings.ToLower(strings.TrimSpace(val)) of an extracted value
FoldValue(val) ==
  CASE val = " N/A " -> "n/a"
    [] val = "Unknown" -> "unknown"
    [] OTHER -> val

\* the list of the source; its four Chinese entries are written in pinyin
MeaninglessValues ==
  { "wei tigong", "wu", "weizhi", "null", "none", "n/a", "not provided",
    "unknown", "not mentioned", "not specified", "not applicable",
    "wei shouji", "not yet collected", "not collected" }

\* the value the OpenAI-compatible client keeps of a field of the reply
cleanExtractedValue(val) ==
  IF FoldValue(val) \in MeaninglessValues THEN "" ELSE val

\* the field map the OpenAI-compatible client makes of the model's reply
parseExtractionResult(raw) == [ k \in FieldKeys |-> cleanExtractedValue(raw[k]) ]

\* replies in which one field holds a placeholder
PlaceholderMaps ==
  { [ f EXCEPT ![AllFieldKeys[1]] = v ] :
      f \in { EmptyResult, Only(FieldKeys, "v1") }, v \in { " N/A ", "Unknown" } }

\* the field maps an implementation of llm.Client may hand to the engine:
\* those of the OpenAI-compatible client, and those of a client that hands
\* over the reply as it is
ClientMaps ==
  { parseExtractionResult(f) : f \in InfoMaps \cup PlaceholderMaps }
    \cup InfoMaps \cup PlaceholderMaps

AllExtractions ==
  { [ err |-> TRUE, fieldMap |-> EmptyResult ] }
    \cup { [ err |-> FALSE, fieldMap |-> f ] : f \in ClientMaps }

Fine(fieldMap) ==
  [ extraction |-> [ err |-> FALSE, fieldMap |-> fieldMap ],
    saveOk1 |-> TRUE, saveOk2 |-> TRUE ]

\* the session stored after a first message whose extraction is fieldMap
FirstSession(fieldMap) ==
  EngineCall(0, NewConversation(EvText1.chatID, EvText1.senderID), EvText1,
             Fine(fieldMap)).record

\* the session stored by a first message that is a suggestion
SuggestionSession ==
  EngineCall(0, NewConversation(EvSuggest.chatID, EvSuggest.senderID),
             EvSuggest, Fine(EmptyResult)).record

InitEngine ==
  Start({ {} }, { [ NoSessions EXCEPT ![EvText1.chatID] = FirstSession(f),
                                      ![EvSuggest.chatID] = s ] :
                    f \in InfoMaps, s \in { {}, SuggestionSession } })

EngineEvents ==
  { EvText2, EvFile, EvSuggest, EvBlank, EvNoId, EvSuggestLate, EvFileOther,
    EvImage }

\* the call's effect, made by caller w on event e under the outcomes x
Calls(w, e, x) ==
  LET c == GetOrCreateConversation(store[e.chatID], e.chatID, e.senderID)
      call == EngineCall(w, c, e, x)
  IN  /\ Saves(e.chatID, call)
      /\ last' = call
      /\ UNCHANGED << inbox, processed, chatLocks, pc, ev, claim, conv, fx,
                      groupVars, sinceTrue, wins, tries, handled, claimAge,
                      raced, contended, orderHist, faults >>

\* a message is processed
Engine(e) ==
  /\ last.worker = 0
  /\ \E x \in EngineOutcomes(GetOrCreateConversation(store[e.chatID],
                               e.chatID, e.senderID), e, AllExtractions) :
       Calls(1, e, x)

\* the same text arrives again and the extractor answers as before
Again ==
  /\ last.worker = 1
  /\ last.extracted /\ last.saved
  /\ Calls(2, last.event, Fine(last.result))

NextEngine == (\E e \in EngineEvents : Engine(e)) \/ Again

SpecEngine == InitEngine /\ [][NextEngine]_vars

(***************************************************************************)
(* Properties                                                              *)
(***************************************************************************)
\* the session stored for chat c
Stored(c) == CHOOSE x \in store[c] : TRUE

IsPrefix(s, t) == Len(s) <= Len(t) /\ SubSeq(t, 1, Len(s)) = s

RealIds == MsgIds \ { "" }

\* the workers that have made a dedup claim without a transport error
Claimed(w) == claim[w] \in { "new", "dup" }

\* C1: among the claims of one message id made without transport error
\* within one retention window, exactly one returns true and every other
\* one returns false, also when the claims are pending at the same time.
C1_AtomicClaim ==
  \A m \in RealIds : tries[m] >= 1 => wins[m] = 1

\* two claims of one id were pending together and both have returned
C1_Witness ==
  \E w, v \in Workers :
    /\ w # v
    /\ ev[w].messageID = ev[v].messageID
    /\ raced[w]
    /\ Claimed(w) /\ Claimed(v)
    /\ tries[ev[w].messageID] = 2

\* C2: within a retention window HandleMessage is called at most once for a
\* non-empty message id; a later delivery of the id is dropped at the claim:
\* it changes no session, acquires no lock, reaches neither the engine nor
\* the hand-off, and sends nothing.
C2_HandledOnce ==
  /\ [](\A m \in RealIds : handled[m] <= 1)
  /\ [](\A w \in Workers : claim[w] = "dup" => pc[w] = "done" /\ fx[w] = <<>>)
  /\ [][\A w \in Workers :
          (claim[w] # "dup" /\ claim'[w] = "dup")
            => UNCHANGED << store, chatLocks, last, threads, run, fx >>]_vars

\* a message whose processing failed is delivered again and dropped
C2_Witness ==
  \E w, v \in Workers :
    /\ w < v
    /\ ev[w].messageID = ev[v].messageID
    /\ claim[w] = "new" /\ pc[w] = "done"
    /\ \E i \in 1..Len(fx[w]) : fx[w][i] = <<"send", "sorry">>
    /\ claim[v] = "dup" /\ pc[v] = "done"

\* C3: a claim returns true exactly when no claim of its message id has
\* returned true in the 24 hours before it: the first claim is true, claims
\* inside the window are false, the first claim after the window is true.
C3_ClaimWindow ==
  \A w \in Workers :
    Claimed(w) => (claim[w] = "new" <=> claimAge[w] = DedupTTLHours)

\* three claims of one id: the first, one inside the window, one after it
C3_Witness ==
  \E u, v, w \in Workers :
    /\ u < v /\ v < w
    /\ ev[u].messageID = ev[v].messageID
    /\ ev[v].messageID = ev[w].messageID
    /\ claim[u] = "new"
    /\ claim[v] = "dup" /\ claimAge[v] > 0 /\ claimAge[v] < DedupTTLHours
    /\ claim[w] = "new"

\* C4: an event whose dedup claim fails with a transport error is dropped:
\* its goroutine returns without acquiring the lock or calling the engine,
\* and the step changes no session, no dedup key, no hand-off thread and
\* sends nothing.
C4_DropOnClaimError ==
  /\ [](\A w \in Workers :
          claim[w] = "err" =>
            /\ pc[w] = "done" /\ fx[w] = <<>>
            /\ \A c \in Chats : \A i \in 1..Len(lockOrder[c]) :
                 lockOrder[c][i] # w)
  /\ [][\A w \in Workers :
          (claim[w] # "err" /\ claim'[w] = "err")
            => UNCHANGED << store, processed, chatLocks, last, threads, run,
                            fx, handled >>]_vars

\* a claim failed while a session of the chat was stored
C4_Witness ==
  \E w \in Workers :
    /\ claim[w] = "err" /\ pc[w] = "done"
    /\ store[ev[w].chatID] # {}

\* the workers inside HandleMessage for chat c
Inside(c) == { w \in Workers : InHandler(w) /\ ev[w].chatID = c }

\* C5: at most one goroutine per chat is between mu.Lock() and mu.Unlock();
\* a goroutine inside HandleMessage (engine call, hand-off, session clear)
\* holds the mutex of its chat throughout; the engine and the hand-off run
\* only under that mutex; and the messages of a chat are handled in the
\* order in which their goroutines acquired the lock.
C5_MutualExclusion ==
  /\ [](\A c \in Chats : Cardinality(Inside(c)) <= 1)
  /\ [](\A w \in Workers :
          InHandler(w) => chatLocks[getChatLock(ev[w].chatID)] = w)
  /\ [](\A c \in Chats : IsPrefix(handleOrder[c], lockOrder[c]))
  /\ [][(last' # last \/ threads' # threads \/ run' # run)
          => \E w \in Workers :
               /\ InHandler(w)
               /\ chatLocks[getChatLock(ev[w].chatID)] = w
               /\ pc'[w] # pc[w]]_vars

\* a goroutine found the lock of its chat held, waited, and the two
\* messages were handled in lock order, the hand-off included
C5_Witness ==
  \E c \in Chats, w \in Workers :
    /\ ev[w].chatID = c
    /\ contended[w]
    /\ pc[w] = "done"
    /\ Len(lockOrder[c]) >= 2
    /\ handleOrder[c] = lockOrder[c]
    /\ threads # <<>>

\* C6: the stored session of a chat holds, for every field, the value of
\* the last saved extraction that set it since the session was created:
\* no saved extraction is lost, whatever the interleaving of the goroutines
\* of that chat.
C6_NoLostUpdate ==
  \A c \in Chats :
    store[c] # {} =>
      \A k \in FieldKeys :
        expected[c][k] # "" =>
          Lookup(Stored(c).CollectedInfo, k) = expected[c][k]

\* two messages of one chat that set different fields were in flight
\* together and the stored session holds the fields of both
C6_Witness ==
  \E c \in Chats, w \in Workers :
    /\ ev[w].chatID = c
    /\ contended[w]
    /\ Len(handleOrder[c]) = 2
    /\ store[c] # {}
    /\ Stored(c).CollectedInfo["issue"] = "v1"
    /\ Stored(c).CollectedInfo["occur_time"] = "v1"

\* C7: a goroutine waiting at mu.Lock() for its chat can acquire the lock
\* whenever no goroutine of the same chat is inside HandleMessage, whatever
\* locks of other chats are held.
C7_LockPerChat ==
  \A w \in Workers :
    (pc[w] = "lock" /\ Inside(ev[w].chatID) = {}) => ENABLED Lock(w)

\* two goroutines of different chats are inside HandleMessage together
C7_Witness ==
  \E w, v \in Workers :
    /\ ev[w].chatID # ev[v].chatID
    /\ InHandler(w) /\ InHandler(v)
    /\ Last(lockOrder[ev[w].chatID]) = w
    /\ Last(lockOrder[ev[v].chatID]) = v

\* C8: in every engine call, a field whose extracted value is empty keeps
\* the value it had before the merge, no key is removed from the collected
\* fields, and no value is replaced by an empty one.
C8_NonErasure ==
  last.worker # 0 =>
    \A k \in FieldKeys :
      LET old == last.before.CollectedInfo[k]
          new == last.after.CollectedInfo[k]
      IN  /\ last.result[k] = "" => new = old
          /\ HasKey(last.before.CollectedInfo, k)
               => HasKey(last.after.CollectedInfo, k)
          /\ new # ""

\* a merge that changed one field and met an empty extracted value for a
\* field already collected
C8_Witness ==
  /\ last.worker # 0 /\ last.extracted /\ last.saved
  /\ \E k \in FieldKeys :
       /\ last.before.CollectedInfo[k] = "v1"
       /\ last.result[k] = ""
       /\ last.after.CollectedInfo[k] = "v1"
  /\ \E k \in FieldKeys :
       /\ last.result[k] = "v2"
       /\ last.before.CollectedInfo[k] = "v1"

\* C9: when the extraction result merged by one engine call is merged again
\* by the next call, with a snapshot taken after the first merge, the
\* collected fields do not change and no change note is recorded.
C9_MergeIdempotent ==
  last.worker = 2 =>
    /\ last.after.CollectedInfo = last.before.CollectedInfo
    /\ last.notes = <<>>

\* the second merge of a result that sets one field anew and updates another
C9_Witness ==
  /\ last.worker = 2 /\ last.extracted /\ last.saved
  /\ \E j, k \in FieldKeys :
       /\ j # k
       /\ last.result[j] = "v2" /\ last.after.CollectedInfo[j] = "v2"
       /\ last.result[k] = "v1" /\ last.after.CollectedInfo[k] = "v1"

\* C10: an engine call on a session whose required fields are all collected
\* leaves them all collected, in the conversation it returns and in the
\* session it stores, for a text or a file message and whatever the
\* extractor returns.
C10_CompletionMonotonic ==
  /\ [](last.worker # 0 /\ IsInfoComplete(last.before.CollectedInfo)
          => IsInfoComplete(last.after.CollectedInfo))
  /\ [][\A c \in Chats :
          (/\ store[c] # {}
           /\ IsInfoComplete(Stored(c).CollectedInfo)
           /\ store'[c] # {})
            => IsInfoComplete((CHOOSE x \in store'[c] : TRUE).CollectedInfo)]_vars

\* a complete session processed a text whose extraction updates a field
C10_Witness ==
  /\ last.worker # 0 /\ last.extracted /\ last.saved
  /\ IsInfoComplete(last.before.CollectedInfo)
  /\ \E k \in FieldKeys :
       /\ last.before.CollectedInfo[k] = "v1"
       /\ last.result[k] = "v2"
  /\ \E k \in FieldKeys : last.result[k] = ""
  /\ IsInfoComplete(Stored(last.event.chatID).CollectedInfo)

\* the required keys without a value in info
MissingKeys(info) ==
  { k \in Range(RequiredFields) : Lookup(info, k) = "" }

\* the place of a display name in the schema
SchemaPlace(name) ==
  CHOOSE p \in 1..Len(RequiredFields) :
    FieldDisplayNames[RequiredFields[p]] = name

\* names is the list of the display names of the required fields missing
\* from info, in schema order
ListsMissing(names, info) ==
  /\ Range(names) = { FieldDisplayNames[k] : k \in MissingKeys(info) }
  /\ \A i, j \in 1..Len(names) :
       i < j => SchemaPlace(names[i]) < SchemaPlace(names[j])

\* w has sent the reply of the given kind
HasSent(w, kind) == \E i \in 1..Len(fx[w]) : fx[w][i] = <<"send", kind>>

\* C11: an engine call in issue mode that returns a response returns the
\* sentinel response exactly when every required field has a value after
\* the merge; otherwise it returns a normal reply that lists the missing
\* required fields in schema order, and the caller starts the hand-off
\* exactly when the sentinel was returned.
C11_SentinelIffComplete ==
  /\ []((last.worker # 0 /\ last.extracted /\ ~last.err) =>
          LET info == last.after.CollectedInfo
          IN  /\ last.response.prefix = EscalatePrefix
                   <=> MissingKeys(info) = {}
              /\ MissingKeys(info) # {} =>
                   /\ last.response.prefix = ""
                   /\ last.response.kind
                        \in { "welcome", "please_provide", "noted_still_need" }
                   /\ ListsMissing(last.response.missing, info))
  /\ [][\A w \in Workers :
          (pc[w] = "process" /\ pc'[w] # "process"
             /\ last'.extracted /\ ~last'.err)
            => (pc'[w] = "escalate"
                  <=> MissingKeys(last'.after.CollectedInfo) = {})]_vars

\* Scenario A: the first message gave one field and got the list of the
\* others, the second gave the others and got the sentinel
C11_Witness ==
  \E w, v \in Workers :
    /\ ev[w] = EvText1 /\ ev[v] = EvText2
    /\ HasSent(w, "noted_still_need")
    /\ last.worker = v
    /\ last.response.prefix = EscalatePrefix
    /\ pc[v] = "escalate"
    /\ Len(last.before.Messages) = 2

\* the text, with the blanks around it left out, starts with a suggestion
\* prefix in any letter case
StartsAsSuggestion(content) ==
  LET text == TrimSpace(content)
  IN  \E p \in SuggestionPrefixes :
        /\ Len(p) <= Len(text)
        /\ \A i \in 1..Len(p) : LowerAtom(text[i]) = p[i]

\* C12: a text that starts with a suggestion prefix, on a session without a
\* mode, makes the session a suggestion whose text is the trimmed input and
\* returns the sentinel response in that turn; the extractor is not called
\* and the collected fields stay as they were.
C12_SuggestionRouting ==
  (/\ last.worker # 0
   /\ last.event.msgType = "text"
   /\ last.before.Mode = ModeUnknown
   /\ StartsAsSuggestion(last.event.content))
    => /\ last.after.Mode = ModeSuggestion
       /\ last.after.SuggestionText = TrimSpace(last.event.content)
       /\ ~last.extracted
       /\ last.after.CollectedInfo = last.before.CollectedInfo
       /\ ~last.err =>
            /\ last.response.prefix = EscalatePrefix
            /\ last.saved
            /\ (CHOOSE x \in last.record : TRUE) = last.after

\* Scenario B: the first message of a chat is a suggestion in capital
\* letters with a blank before it, and its goroutine goes on to the hand-off
C12_Witness ==
  /\ last.worker # 0
  /\ last.event = EvSuggest
  /\ last.event.content # TrimSpace(last.event.content)
  /\ last.before = NewConversation(EvSuggest.chatID, EvSuggest.senderID)
  /\ last.response.prefix = EscalatePrefix
  /\ pc[last.worker] = "escalate"
  /\ store[EvSuggest.chatID] = { last.after }

(***************************************************************************)
(* The hand-off pipeline on sessions that hold files: one message arrives   *)
(* for a chat whose session was built by earlier file messages, and every   *)
(* call of the pipeline may fail.                                           *)
(***************************************************************************)
FileIds == << "f1", "f2", "f3", "f4" >>

\* the i-th file message of chat c1
FileEvent(i) ==
  Event(FileIds[i], "c1", "p2p", "file", <<"uploaded_file: ", FileIds[i]>>,
        FileIds[i], EmptyResult)

\* the session after file messages 1..n arrived, in this order, at session c
RECURSIVE Uploaded(_, _)
Uploaded(c, n) ==
  IF n = 0 THEN c
  ELSE EngineCall(0, Uploaded(c, n - 1), FileEvent(n), Fine(EmptyResult)).after

\* the sessions of c1 a hand-off may find: none, one that the files opened,
\* or one that a text with one field opened before the files came
HandoffStores ==
  { NoSessions }
    \cup { [ NoSessions EXCEPT !["c1"] =
               { Uploaded(NewConversation("c1", EvText1.senderID), n) } ] :
             n \in 1..MaxFiles }
    \cup { [ NoSessions EXCEPT !["c1"] =
               { Uploaded(CHOOSE x \in FirstSession(EvText1.says) : TRUE,
                          n) } ] :
             n \in 0..MaxFiles }

HandoffScenarios == { { EvEscalate }, { EvFull }, { EvSuggest } }

InitHandoff == Start(HandoffScenarios, HandoffStores)

\* doEscalation where any number of the pipeline's calls may fail
Handoff(w) == doEscalation(w, faults + MaxFiles + 4)

NextHandoff ==
  \/ \E e \in UNION HandoffScenarios : Deliver(e)
  \/ \E w \in Workers : Claim(w)
  \/ \E w \in Workers : Lock(w)
  \/ \E w \in Workers : ForceEscalate(w)
  \/ \E w \in Workers : BeginProcess(w)
  \/ \E w \in Workers : Process(w)
  \/ \E w \in Workers : Handoff(w)

SpecHandoff == InitHandoff /\ [][NextHandoff]_vars

\* the most recent hand-off called the given step for file i (0: no file)
Ran(step, i) == <<step, i>> \in Range(run)

\* the files of the hand-off's session whose relay went through
RelayedOk == { i \in 1..Len(handoff.conv.Files) : handoff.outcome.relay[i] = "none" }

\* C13: once the summary is posted with a thread root, the relay of every
\* file of the session is attempted whatever happened to the files before
\* it, the thread holds exactly the files whose three steps succeeded, and
\* the pipeline returns no error.
C13_FileFailureIsolated ==
  (handoff.worker # 0 /\ handoff.outcome.post = "ok") =>
    LET files == handoff.conv.Files
        relay == handoff.outcome.relay
    IN  /\ ~handoff.err
        /\ \A i \in 1..Len(files) :
             /\ Ran("download", i)
             /\ Ran("upload", i) <=> relay[i] # "download"
             /\ Ran("reply", i) <=> relay[i] \in { "none", "reply" }
        /\ Range(Last(threads).files) = { files[i] : i \in RelayedOk }
        /\ Len(Last(threads).files) = Cardinality(RelayedOk)
        /\ Ran("notify", 0)

\* Scenario D: two files, the download of the first fails, the second is
\* relayed
C13_Witness ==
  /\ handoff.worker # 0
  /\ Len(handoff.conv.Files) = 2
  /\ handoff.outcome.post = "ok"
  /\ handoff.outcome.relay = << "download", "none" >>
  /\ ~handoff.err
  /\ Last(threads).files = << handoff.conv.Files[2] >>
  /\ Ran("reply", 2) /\ ~Ran("upload", 1)

\* C14: when posting the summary fails the pipeline returns the error
\* after the post: no file is downloaded, uploaded or replied, the user is
\* not told of a success, no thread appears and the session stays stored.
C14_PostFailureAborts ==
  /\ [](handoff.worker # 0 /\ handoff.outcome.post = "fail" =>
          /\ handoff.err
          /\ ~handoff.cleared
          /\ \A k \in 1..Len(run) :
               run[k][1] \notin { "download", "upload", "reply", "notify" }
          /\ Last(run) = <<"post", 0>>)
  /\ [][\A w \in Workers :
          (pc[w] = "escalate" /\ pc'[w] = "done" /\ handoff'.worker = w
             /\ handoff'.outcome.post = "fail")
            => /\ store' = store
               /\ threads' = threads
               /\ Last(fx'[w]) = <<"unlock", "">>
               /\ fx'[w][Len(fx'[w]) - 1] = <<"send", "submit_failed">>]_vars

\* the post fails for a session that holds two files
C14_Witness ==
  /\ handoff.worker # 0
  /\ handoff.outcome.post = "fail"
  /\ Len(handoff.conv.Files) = 2
  /\ store[handoff.conv.ChatID] = { handoff.conv }
  /\ HasSent(handoff.worker, "submit_failed")
  /\ threads = <<>>

\* C15: the pipeline returns an error exactly when the post fails; after a
\* post that went through, the file loop (when there is a thread root) and
\* the notification run whichever of the invitation, the relays and the
\* notification fail.
C15_OnlyPostFails ==
  handoff.worker # 0 =>
    /\ handoff.err <=> handoff.outcome.post = "fail"
    /\ Ran("post", 0)
    /\ handoff.outcome.post # "fail" =>
         /\ Ran("notify", 0)
         /\ Len(threads) > 0 /\ Last(threads).chat = handoff.conv.ChatID
         /\ handoff.outcome.post = "ok" =>
              \A i \in 1..Len(handoff.conv.Files) : Ran("download", i)

\* the invitation, both relays and the notification fail, and the pipeline
\* returns no error
C15_Witness ==
  /\ handoff.worker # 0
  /\ ~handoff.outcome.invite /\ ~handoff.outcome.notify
  /\ handoff.outcome.post = "ok"
  /\ Len(handoff.conv.Files) = 2
  /\ \A i \in 1..2 : handoff.outcome.relay[i] # "none"
  /\ ~handoff.err
  /\ Ran("download", 2) /\ Ran("notify", 0)

\* C16: a hand-off that completed without error leaves no session record
\* of its chat in the store.
C16_ClearedAfterHandoff ==
  [][\A w \in Workers :
       (pc[w] = "escalate" /\ handoff'.worker = w /\ ~handoff'.err
          /\ Len(threads') > Len(threads))
         => store'[ev[w].chatID] = {}]_vars

\* C17: while a goroutine is in the hand-off of a chat no other goroutine
\* handles a message of that chat, and a summary is posted only for a
\* session for which none was posted before.
C17_PostedOnce ==
  /\ [](\A w, v \in Workers :
          (w # v /\ pc[w] = "escalate" /\ ev[v].chatID = ev[w].chatID)
            => ~InHandler(v))
  /\ [][Len(threads') > Len(threads)
          => filed[Last(threads').chat] = 0]_vars

\* the place of file f among the file messages, in order of arrival
Arrival(f) ==
  CHOOSE i \in 1..Len(FileIds) : FileIds[i] = f.MessageID

\* the thread replies of the most recent hand-off, in the order made
Replies == SelectSeq(run, LAMBDA call : call[1] = "reply")

\* C18: the files replied into the thread are the session's files whose
\* relay succeeded, in the order in which their messages arrived.
C18_ArrivalOrder ==
  (handoff.worker # 0 /\ handoff.outcome.post = "ok") =>
    LET files == handoff.conv.Files
        sent  == Last(threads).files
        done  == SelectSeq(Replies,
                           LAMBDA call : handoff.outcome.relay[call[2]] = "none")
    IN  /\ \A i, j \in 1..Len(files) :
             i < j => Arrival(files[i]) < Arrival(files[j])
        /\ \A i, j \in 1..Len(Replies) :
             i < j => Arrival(files[Replies[i][2]])
                        < Arrival(files[Replies[j][2]])
        /\ sent = [ k \in 1..Len(done) |-> files[done[k][2]] ]
        /\ \A i, j \in 1..Len(sent) :
             i < j => Arrival(sent[i]) < Arrival(sent[j])
        /\ Range(sent) = { files[i] : i \in RelayedOk }

\* two files arrived, f1 before f2, and both are in the thread in that order
C18_Witness ==
  /\ handoff.worker # 0
  /\ handoff.outcome.post = "ok"
  /\ Len(Last(threads).files) = 2
  /\ Last(threads).files[1].MessageID = FileIds[1]
  /\ Last(threads).files[2].MessageID = FileIds[2]
  /\ Replies = << <<"reply", 1>>, <<"reply", 2>> >>

\* C19: a session that has a mode keeps it through every engine call, for
\* a text, a suggestion text or a file; a call on a session without a mode
\* leaves it without one or gives it one of the two modes; and a stored
\* session always has one of the two modes.
C19_ModeSetOnce ==
  /\ [](last.worker # 0 =>
          IF last.before.Mode = ModeUnknown
            THEN last.after.Mode \in { ModeUnknown, ModeIssue, ModeSuggestion }
            ELSE last.after.Mode = last.before.Mode)
  /\ [](\A c \in Chats :
          store[c] # {} => Stored(c).Mode \in { ModeIssue, ModeSuggestion })
  /\ [][\A c \in Chats :
          (store[c] # {} /\ store'[c] # {})
            => (CHOOSE x \in store'[c] : TRUE).Mode = Stored(c).Mode]_vars

\* a session in issue mode processed and stored a text that starts with a
\* suggestion prefix
C19_Witness ==
  /\ last.worker # 0
  /\ last.before.Mode = ModeIssue
  /\ StartsAsSuggestion(last.event.content)
  /\ last.saved
  /\ Stored(last.event.chatID).Mode = ModeIssue
  /\ Len(Stored(last.event.chatID).Messages)
       > Len(last.before.Messages)

\* the text holds nothing but blanks
Blank(content) == \A i \in 1..Len(content) : content[i] = Space

\* C20: the engine call for a text of blanks only returns the empty
\* response and no error without calling the extractor, the conversation
\* and the store are as before, and the caller returns without sending
\* anything and without a hand-off.
C20_BlankNoOp ==
  [][\A w \in Workers :
       (pc[w] = "process" /\ pc'[w] # "process"
          /\ ev[w].msgType = "text" /\ Blank(ev[w].content))
         => /\ last'.worker = w
            /\ last'.response = EmptyResponse
            /\ ~last'.err
            /\ ~last'.extracted
            /\ ~last'.saved
            /\ last'.after = last'.before
            /\ store' = store
            /\ pc'[w] = "done"
            /\ fx'[w] = fx[w] \o << <<"unlock", "">> >>
            /\ threads' = threads /\ run' = run]_vars

\* a blank text was processed on a chat that has a stored session
C20_Witness ==
  \E w \in Workers :
    /\ ev[w] = EvBlank
    /\ pc[w] = "done"
    /\ last.worker = w /\ last.event = EvBlank
    /\ store[EvBlank.chatID] = { last.before }
    /\ Len(last.before.Messages) > 0
    /\ \A i \in 1..Len(fx[w]) : fx[w][i][1] # "send"

\* C21: an engine call whose extractor call fails leaves the collected
\* fields as they were and records no change, appends the user message,
\* and, its save succeeding, stores the session and returns a response
\* without error, which the caller sends.
C21_ExtractorFailOpen ==
  (last.worker # 0 /\ last.failed) =>
    /\ last.extracted
    /\ last.after.CollectedInfo = last.before.CollectedInfo
    /\ last.notes = <<>>
    /\ Len(last.after.Messages) > Len(last.before.Messages)
    /\ last.after.Messages[Len(last.before.Messages) + 1]
         = [ Role |-> "user", Content |-> last.event.content ]
    /\ last.err <=> ~last.saveOk
    /\ last.saveOk <=> last.saved
    /\ last.saved =>
         /\ last.record = { last.after }
         /\ last.response.kind # ""
         /\ HasSent(last.worker, last.response.kind)

\* the extractor fails on the second message of a chat whose first message
\* gave one field
C21_Witness ==
  /\ last.worker # 0 /\ last.failed /\ last.saved
  /\ last.event = EvText2
  /\ last.before.CollectedInfo["issue"] = "v1"
  /\ store[EvText2.chatID] = { last.after }
  /\ last.response.kind = "please_provide"
  /\ pc[last.worker] = "done"

\* C22: an engine call that returns an error returns no response, so no
\* sentinel, and leaves the store as it was before the message.
C22_PersistenceFailClosed ==
  [][(last'.worker # last.worker /\ last'.err)
       => /\ last'.response = EmptyResponse
          /\ ~last'.saveOk
          /\ store' = store]_vars

\* no key of the map is present with the empty string as its value
NoEmptyValue(info) == \A k \in FieldKeys : info[k] # ""

\* C23: in the session an engine call returns and in every session in the
\* store, no key of the collected fields maps to the empty string.
C23_NoEmptyField ==
  /\ last.worker # 0 => NoEmptyValue(last.after.CollectedInfo)
  /\ \A c \in Chats :
       \A x \in store[c] : NoEmptyValue(x.CollectedInfo)

\* a stored session has a field that was collected and one that was not,
\* after a merge that met an empty extracted value for a collected field
C23_Witness ==
  /\ last.worker # 0 /\ last.extracted /\ last.saved
  /\ \E j, k \in FieldKeys :
       /\ last.before.CollectedInfo[j] = "v1" /\ last.result[j] = ""
       /\ Stored(last.event.chatID).CollectedInfo[j] = "v1"
       /\ last.result[k] = ""
       /\ ~HasKey(Stored(last.event.chatID).CollectedInfo, k)

\* session x continues session y: the messages and the files of y are the
\* first messages and the first files of x
Extends(x, y) ==
  /\ IsPrefix(y.Messages, x.Messages)
  /\ IsPrefix(y.Files, x.Files)

\* C24: the conversation an engine call returns continues the one it was
\* given, and a record that replaces a stored record continues it: no
\* message and no file is removed, moved or changed.
C24_AppendOnly ==
  /\ [](last.worker # 0 => Extends(last.after, last.before))
  /\ [][\A c \in Chats :
          (store[c] # {} /\ store'[c] # {})
            => Extends(CHOOSE x \in store'[c] : TRUE, Stored(c))]_vars

\* a file message was processed on a session that held two messages
C24_Witness ==
  /\ last.worker # 0 /\ last.saved
  /\ last.event = EvFile
  /\ Len(last.before.Messages) = 2
  /\ Len(Stored(EvFile.chatID).Messages) = 4
  /\ Len(Stored(EvFile.chatID).Files) = 1
  /\ last.before.Messages[1].Content = EvText1.content

\* C25: a stored session has a suggestion text only in suggestion mode,
\* and the suggestion text of a session in suggestion mode is not changed
\* by a later message.
C25_SuggestionTextFixed ==
  /\ [](\A c \in Chats :
          \A x \in store[c] :
            x.SuggestionText # <<>> => x.Mode = ModeSuggestion)
  /\ [][\A c \in Chats :
          (store[c] # {} /\ store'[c] # {}
             /\ Stored(c).Mode = ModeSuggestion)
            => (CHOOSE x \in store'[c] : TRUE).SuggestionText
                 = Stored(c).SuggestionText]_vars

\* the step is the return of a hand-off of chat c that posted its summary
HandedOff(c) ==
  \E w \in Workers :
    /\ pc[w] = "escalate" /\ pc'[w] = "done"
    /\ ev[w].chatID = c
    /\ Len(threads') = Len(threads) + 1
    /\ Last(threads').chat = c

\* the step is the handling of a clear request for chat c
ClearRequested(c) ==
  \E w \in Workers :
    /\ pc[w] = "handle" /\ pc'[w] = "done"
    /\ ev[w].chatID = c
    /\ ev[w].msgType = "text" /\ IsClearContextKeyword(ev[w].content)

\* the step is made by no goroutine: the record's time to live ran out
Expired(c) == Quiet /\ pc' = pc /\ store[c] # {} /\ store'[c] = {}

\* the step is an engine call for a message of chat c
Turn(c) ==
  \E w \in Workers :
    pc[w] = "process" /\ pc'[w] # "process" /\ ev[w].chatID = c

\* C26 as stated: a stored record disappears only in a successful hand-off
\* or a clear request, and its collected fields change only in a turn.
C26_RemovedOnlyByHandoffOrClear ==
  [][\A c \in Chats :
       /\ (store[c] # {} /\ store'[c] = {})
            => (HandedOff(c) \/ ClearRequested(c))
       /\ (store[c] # {} /\ store'[c] # {} /\ ~Turn(c))
            => store'[c] = store[c]]_vars

\* C26, amended: a stored record disappears only in a successful hand-off,
\* in a clear request or when its time to live in Redis runs out, and its
\* collected fields change only in a turn.
C26_RemovedOnlyByHandoffClearOrExpiry ==
  [][\A c \in Chats :
       /\ (store[c] # {} /\ store'[c] = {})
            => (HandedOff(c) \/ ClearRequested(c) \/ Expired(c))
       /\ (store[c] # {} /\ store'[c] # {} /\ ~Turn(c))
            => store'[c] = store[c]]_vars

\* a session was saved, no hand-off and no clear request happened, and the
\* record is gone
C26_Witness ==
  /\ last.worker # 0 /\ last.saved
  /\ Quiet
  /\ store[last.event.chatID] = {}
  /\ handoff.worker = 0 /\ threads = <<>>
  /\ \A w \in Workers : ~IsClearContextKeyword(ev[w].content)

\* C27: the hand-off a force-escalate keyword starts runs the pipeline on
\* the record stored for the chat, whether or not its required fields are
\* complete, and when the pipeline returns no error the record is gone
\* from the store.
C27_ForceEscalate ==
  [][\A w \in Workers :
       (/\ pc[w] = "escalate" /\ pc'[w] = "done"
        /\ IsEscalationKeyword(ev[w].content)
        /\ store[ev[w].chatID] # {}
        /\ ~HasSent(w, "get_failed")')
         => /\ handoff'.worker = w
            /\ handoff'.conv = Stored(ev[w].chatID)
            /\ <<"post", 0>> \in Range(run')
            /\ ~handoff'.err => store'[ev[w].chatID] = {}]_vars

\* C28: the notification of a hand-off tells the user of an invitation to
\* the group only if the hand-off invited the user and the invitation
\* succeeded.
C28_InvitedOnlyIfInvited ==
  (handoff.worker # 0 /\ Ran("notify", 0) /\ handoff.notice.invited) =>
    /\ Ran("invite", 0)
    /\ handoff.outcome.invite

\* C29: in a hand-off every download, upload and reply comes after the
\* post, which succeeded; a reply is made only into a thread that has the
\* post as its root; and when the post succeeds the relay of every file of
\* the session is attempted.
C29_RelayUnderRoot ==
  handoff.worker # 0 =>
    /\ \A k \in 1..Len(run) :
         run[k][1] \in { "download", "upload", "reply" }
           => /\ handoff.outcome.post # "fail"
              /\ \E j \in 1..(k - 1) : run[j] = <<"post", 0>>
    /\ (\E i \in 1..Len(handoff.conv.Files) : Ran("reply", i))
         => Last(threads).hasRoot
    /\ handoff.outcome.post # "fail" =>
         \A i \in 1..Len(handoff.conv.Files) : Ran("download", i)

ChangedKeys ==
  { k \in FieldKeys :
      /\ last.result[k] # ""
      /\ last.result[k] # Lookup(last.before.CollectedInfo, k) }

\* the change note the merge should record for key k
NoteOf(k) ==
  [ name    |-> FieldDisplayNames[k],
    value   |-> last.result[k],
    updated |-> Lookup(last.before.CollectedInfo, k) # "" ]

\* C31: an engine call that reaches the merge sets exactly the keys whose
\* extracted value is non-empty and differs from the value held before the
\* call, leaves every other key as it was, and records one note for each
\* key it set, marked as an update exactly when a value was held before,
\* and no other note.
C31_MergeExact ==
  (last.worker # 0 /\ last.extracted) =>
    /\ \A k \in FieldKeys :
         last.after.CollectedInfo[k]
           = IF k \in ChangedKeys THEN last.result[k]
                                  ELSE last.before.CollectedInfo[k]
    /\ Len(last.notes) = Cardinality(ChangedKeys)
    /\ Range(last.notes) = { NoteOf(k) : k \in ChangedKeys }

\* one merge that updates a key, collects another and meets an empty
\* value for a third, which held a value
C31_Witness ==
  /\ last.worker # 0 /\ last.extracted /\ last.saved
  /\ \E j, k, n \in FieldKeys :
       /\ NoteOf(j) \in Range(last.notes) /\ NoteOf(j).updated
       /\ NoteOf(k) \in Range(last.notes) /\ ~NoteOf(k).updated
       /\ last.result[n] = "" /\ last.before.CollectedInfo[n] = "v1"
       /\ last.after.CollectedInfo[n] = "v1"

\* the messages of the given role the call appended to the log
Appended(role) ==
  { i \in (Len(last.before.Messages) + 1)..Len(last.after.Messages) :
      last.after.Messages[i].Role = role }

\* C32: an engine call for a message that is not a text appends one file
\* entry exactly when the message has a file key and a message id, appends
\* one user message, gives the session issue mode exactly when it had no
\* mode, leaves the collected fields alone without calling the extractor,
\* and returns the sentinel exactly when the session was complete before
\* the message, otherwise a reply that lists the missing required fields.
C32_NonTextMessage ==
  (last.worker # 0 /\ last.event.msgType # "text") =>
    LET e == last.event
        hasMeta == e.fileKey # "" /\ e.messageID # ""
    IN  /\ IF hasMeta
             THEN /\ Len(last.after.Files) = Len(last.before.Files) + 1
                  /\ IsPrefix(last.before.Files, last.after.Files)
                  /\ Last(last.after.Files).MessageID = e.messageID
                  /\ Last(last.after.Files).FileKey = e.fileKey
             ELSE last.after.Files = last.before.Files
        /\ IsPrefix(last.before.Messages, last.after.Messages)
        /\ Cardinality(Appended("user")) = 1
        /\ last.after.Messages[Len(last.before.Messages) + 1]
             = [ Role |-> "user", Content |-> e.content ]
        /\ last.after.Mode = IF last.before.Mode = ModeUnknown
                               THEN ModeIssue ELSE last.before.Mode
        /\ last.after.CollectedInfo = last.before.CollectedInfo
        /\ ~last.extracted
        /\ ~last.err =>
             IF MissingKeys(last.before.CollectedInfo) = {}
               THEN last.response.prefix = EscalatePrefix
               ELSE /\ last.response.prefix = ""
                    /\ last.response.kind = "file_received"
                    /\ ListsMissing(last.response.missing,
                                    last.before.CollectedInfo)

\* an image without a file key reached a session that misses fields: no
\* file entry, one user message, the missing fields listed
C32_Witness ==
  /\ last.worker # 0 /\ last.saved
  /\ last.event = EvImage
  /\ last.before.Mode = ModeIssue
  /\ last.after.Files = <<>>
  /\ Len(last.response.missing) > 1
  /\ Len(last.response.missing) < Len(RequiredFields)
  /\ Stored(EvImage.chatID) = last.after

\* C33: an engine call for a message, text or not, of a session in
\* suggestion mode is handled as a suggestion: the extractor is not called
\* and the response is the sentinel response of the suggestion handler,
\* never a reply that lists missing fields.
C33_SuggestionTerminal ==
  (/\ last.worker # 0
   /\ last.before.Mode = ModeSuggestion
   /\ ~(last.event.msgType = "text" /\ Blank(last.event.content)))
    => /\ ~last.extracted
       /\ last.after.Mode = ModeSuggestion
       /\ ~last.err =>
            /\ last.response.prefix = EscalatePrefix
            /\ last.response.kind = "suggestion_received"
            /\ last.response.missing = <<>>

\* C34: an engine call that reaches the merge and leaves the session
\* incomplete answers with the welcome message exactly when the merge set
\* no field and the session had no message before this one; in any later
\* turn the answer is a listing of the missing fields.
C34_WelcomeFirstTurnOnly ==
  (/\ last.worker # 0 /\ last.extracted /\ ~last.err
   /\ MissingKeys(last.after.CollectedInfo) # {})
    => /\ last.response.kind = "welcome"
            <=> (ChangedKeys = {} /\ last.before.Messages = <<>>)
       /\ last.before.Messages # <<>> =>
            /\ last.response.kind \in { "please_provide", "noted_still_need" }
            /\ ListsMissing(last.response.missing, last.after.CollectedInfo)

\* the second turn of a session whose first turn got the welcome message:
\* again no field is collected, and the answer is the missing-field listing
C34_Witness ==
  /\ last.worker # 0 /\ last.extracted /\ last.saved
  /\ ChangedKeys = {}
  /\ Len(last.before.Messages) = 2
  /\ last.before.Messages[2].Content = <<"welcome">>
  /\ last.response.kind = "please_provide"
  /\ Len(last.response.missing) = Len(RequiredFields)

\* the text holds one of the words, in any letter case, at some place
Mentions(content, words) ==
  \E kw \in words :
    \E i \in 1..Len(content) :
      /\ i + Len(kw) - 1 <= Len(content)
      /\ \A j \in 1..Len(kw) : LowerAtom(content[i + j - 1]) = LowerAtom(kw[j])

\* event e is a text with a clear or an escalation keyword in it
Keyworded(e) ==
  /\ e.msgType = "text"
  /\ (Mentions(e.content, ClearContextKeywords)
        \/ Mentions(e.content, EscalationKeywords))

\* C35: a text with a clear or an escalation keyword in it is never given
\* to the engine, and no step of the goroutine that handles it calls the
\* engine or changes the stored session other than by deleting it.
C35_KeywordsBypassEngine ==
  /\ [](last.worker # 0 => ~Keyworded(last.event))
  /\ [][\A w \in Workers :
          (InHandler(w) /\ pc'[w] # pc[w] /\ Keyworded(ev[w]))
            => /\ last' = last
               /\ pc'[w] # "process"
               /\ conv' = conv
               /\ store'[ev[w].chatID] \in { store[ev[w].chatID], {} }]_vars

\* a text with the keyword in capital letters between other words started
\* the hand-off of the session the first message had left
C35_Witness ==
  \E w \in Workers :
    /\ ev[w] = EvShout /\ pc[w] = "done"
    /\ handoff.worker = w
    /\ last.event = EvText1
    /\ handoff.conv = last.after
    /\ Len(handoff.conv.Messages) = 2


C37_NoRetry ==
  /\ [](handoff.worker # 0 =>
          LET o == handoff.outcome
              Attempts(step, i) ==
                Cardinality({ k \in 1..Len(run) : run[k] = <<step, i>> })
              LaterSteps(step) ==
                CASE step = "download" -> { "upload", "reply" }
                  [] step = "upload" -> { "reply" }
                  [] OTHER -> {}
          IN  /\ \A k \in 1..Len(run) : Attempts(run[k][1], run[k][2]) = 1
              /\ o.post = "fail" => Last(run) = <<"post", 0>>
              /\ \A i \in DOMAIN o.relay :
                   (o.post = "ok" /\ o.relay[i] # "none") =>
                     /\ Attempts(o.relay[i], i) = 1
                     /\ \A s \in LaterSteps(o.relay[i]) : Attempts(s, i) = 0)
  /\ [][\A w \in Workers :
          /\ (last' # last /\ last'.worker = w)
               => /\ pc[w] = "process" /\ pc'[w] \in { "escalate", "done" }
                  /\ last'.err => pc'[w] = "done"
          /\ (handoff' # handoff /\ handoff'.worker = w)
               => pc[w] = "escalate" /\ pc'[w] = "done"
          /\ pc[w] = "escalate" => pc'[w] \in { "escalate", "done" }
          /\ pc[w] = "done" => pc'[w] = "done"]_vars

\* a hand-off of two files in which the invitation failed and the upload of
\* the first file failed went on to relay the second file
C37_Witness ==
  /\ handoff.worker # 0
  /\ ~handoff.outcome.invite
  /\ handoff.outcome.post = "ok"
  /\ Len(handoff.conv.Files) = 2
  /\ handoff.outcome.relay[1] = "upload"
  /\ handoff.outcome.relay[2] = "none"
  /\ Ran("reply", 2)
  /\ Ran("notify", 0)


\* C38: every session in the store has mode issue or suggestion and at least
\* one message; a step that writes a session is the save of an engine call
\* on that chat, which has set the mode and appended to the messages it
\* read; and the step in which a goroutine gets or creates its session
\* leaves the store as it is.
C38_StoredSessionsStarted ==
  /\ [](\A c \in Chats :
          store[c] # {} => /\ Stored(c).Mode \in { ModeIssue, ModeSuggestion }
                           /\ Stored(c).Messages # <<>>)
  /\ [][\A c \in Chats :
          (store'[c] # store[c] /\ store'[c] # {})
            => /\ last'.worker # 0 /\ last'.saved
               /\ last'.event.chatID = c
               /\ pc[last'.worker] = "process"
               /\ store'[c] = last'.record
               /\ Stored(c)'.Mode \in { ModeIssue, ModeSuggestion }
               /\ IsPrefix(last'.before.Messages, Stored(c)'.Messages)
               /\ Len(Stored(c)'.Messages) > Len(last'.before.Messages)]_vars
  /\ [][\A w \in Workers :
          (pc[w] = "handle" /\ pc'[w] = "process") => store' = store]_vars

\* the first message of one chat has been saved as a session, while a
\* goroutine holds the session it created for another chat, of which the
\* store has nothing
C38_Witness ==
  \E w \in Workers :
    /\ pc[w] = "process"
    /\ conv[w] = { NewConversation(ev[w].chatID, ev[w].senderID) }
    /\ store[ev[w].chatID] = {}
    /\ last.worker # 0 /\ last.saved
    /\ last.before.Messages = <<>>
    /\ last.before.Mode = ModeUnknown
    /\ store[last.event.chatID] = last.record


C40_LockReleasedAndAcquired ==
  /\ [][\A w \in Workers :
          (InHandler(w) /\ pc'[w] = "done")
            => /\ chatLocks[getChatLock(ev[w].chatID)] = w
               /\ chatLocks'[getChatLock(ev[w].chatID)] = 0
               /\ Last(fx'[w]) = <<"unlock", "">>]_vars
  /\ [](\A c \in Chats :
          chatLocks[c] # 0 => /\ InHandler(chatLocks[c])
                              /\ getChatLock(ev[chatLocks[c]].chatID) = c)
  /\ []((\E w \in Workers : pc[w] \notin { "idle", "done" })
          => \E w \in Workers :
               ProcessEnabled(w) \/ ENABLED (Runs(w) \/ Lock(w)))
  /\ \A w \in Workers : pc[w] = "lock" ~> InHandler(w)
  /\ \A w \in Workers :
       pc[w] = "lock"
         ~> (/\ pc[w] = "done" /\ handled[ev[w].messageID] > 0
             /\ \E i \in 1..Len(fx[w]) :
                  i = Len(fx[w]) /\ fx[w][i] = <<"unlock", "">>)

\* two goroutines of one chat have returned: the second had to wait for the
\* mutex, the first left after a normal reply, the second after a hand-off
C40_Witness ==
  \E v, w \in Workers :
    /\ v # w /\ ev[v].chatID = ev[w].chatID
    /\ pc[v] = "done" /\ pc[w] = "done"
    /\ contended[w]
    /\ lockOrder[ev[w].chatID] = <<v, w>>
    /\ HasSent(v, "noted_still_need")
    /\ handoff.worker = w /\ ~handoff.err
    /\ chatLocks[getChatLock(ev[w].chatID)] = 0

=============================================================================
